---- MODULE Spec2Model ----
(***************************************************************************)
(* Model of Chapters (samhutchins/Chapters): src/src/libchapters.py and     *)
(* src/src/chapters_gui.py.                                                *)
(*                                                                         *)
(*   Spec      an import and a save: encode_wav_file (Lame.encode with its *)
(*             worker threads, encoder processes and drain threads), then  *)
(*             write_mp3_data_with_metadata.                               *)
(*   SpecFacade  MaxOps calls of the facade's methods, at any time.        *)
(*   SpecWav   LibChapters.__read_chapters_from_wav_file as a function of  *)
(*             the WAV file's chunks.                                      *)
(*   SpecMp3   read_metadata_from_mp3_file and write_metadata_to_file on   *)
(*             foreign tags and missing paths                              *)
(*   SpecTags  LibChapters.__get_tags and the __get_*_from_id3_tags        *)
(*             decoders as functions of a MetaData.                        *)
(*   SpecSkip  __read_chapters_from_wav_file on WAV files that hold chunks *)
(*             the walk does not know.                                     *)
(*   SpecGui   MainWindow of chapters_gui.py: Import Audio, Save and the    *)
(*             signals of the listener.                                    *)
(*   SpecTable  ChaptersTableModel of chapters_gui.py: the edits of the    *)
(*             cells of a chapter.                                         *)
(*   SpecGuess read_metadata_from_wav_file as a function of the file name. *)
(*   SpecReadWav  calls of read_metadata_from_wav_file, also on files that *)
(*             are not WAV files.                                          *)
(*   SpecRepeat  __read_chapters_from_wav_file on WAV files that declare a *)
(*             cue id or a label more than once.                           *)
(*   SpecDamaged  __read_chapters_from_wav_file on WAV files cut short or  *)
(*             with chunk headers that declare a wrong size.               *)
(***************************************************************************)
EXTENDS Integers, Sequences, FiniteSets, TLC

(***************************************************************************)
(* Python floats (IEEE-754 binary64), non-negative and finite.  A float is *)
(* zero (m = << >>) or a 53-bit mantissa m, most significant bit first     *)
(* with m[1] = 1, and the exponent e of m[1]: value = SUM m[i]*2^(e-i+1).  *)
(* Every operation rounds to nearest, ties to even, as the hardware does.  *)
(* The ints divided are below 2^30 and the divisors below 2^19.            *)
(***************************************************************************)
MantBits == 52 + 1

FloatZero == [m |-> << >>, e |-> 0]

\* F(v), with v evaluated once
Eval(v, F(_)) == CHOOSE y \in {F(x) : x \in {v}} : TRUE

\* the bit of weight 2^k of n
Bit(n, k) == (n \div 2^k) % 2

BitLength(n) ==
    IF n = 0 THEN 0
    ELSE CHOOSE l \in 1..30 : 2^(l - 1) <= n /\ (l = 30 \/ n < 2^l)

\* the binary digits of n, most significant first
IntBits(n) ==
    Eval(n, LAMBDA v : Eval(BitLength(v), LAMBDA l : [i \in 1..l |-> Bit(v, l - i)]))

FixedBits(n, width) == Eval(n, LAMBDA v : [i \in 1..width |-> Bit(v, width - i)])

RECURSIVE BitsFrom(_, _, _)
BitsFrom(b, i, acc) == IF i > Len(b) THEN acc ELSE BitsFrom(b, i + 1, 2 * acc + b[i])

\* the int of at most 30 binary digits, most significant first
BitsToInt(b) == Eval(b, LAMBDA s : BitsFrom(s, 1, 0))

\* n groups of 12 binary digits of rem / r (0 <= rem < r), followed by the
\* last remainder
RECURSIVE FracLimbs(_, _, _)
FracLimbs(rem, r, n) ==
    IF n = 0 THEN <<rem>>
    ELSE <<(rem * 4096) \div r>> \o FracLimbs((rem * 4096) % r, r, n - 1)

\* the first 96 binary digits of rem / r
FracBits(limbs) ==
    Eval(limbs, LAMBDA d : [i \in 1..96 |-> Bit(d[((i - 1) \div 12) + 1], 11 - ((i - 1) % 12))])

\* b + 1 for binary digits b that are not all 1
IncBits(b) ==
    LET z == CHOOSE i \in 1..Len(b) : b[i] = 0 /\ \A j \in (i + 1)..Len(b) : b[j] = 1
    IN  [i \in 1..Len(b) |-> IF i < z THEN b[i] ELSE IF i = z THEN 1 ELSE 0]

\* b * c for 53 binary digits b and 0 < c < 2^11
MulBits(b, c) ==
    Eval(BitsToInt(SubSeq(b, 34, 53)) * c, LAMBDA t3 :
    Eval(BitsToInt(SubSeq(b, 14, 33)) * c + (t3 \div 2^20), LAMBDA t2 :
    Eval(BitsToInt(SubSeq(b, 1, 13)) * c + (t2 \div 2^20), LAMBDA t1 :
        IntBits(t1) \o FixedBits(t2 % 2^20, 20) \o FixedBits(t3 % 2^20, 20))))

FirstOne(b) ==
    IF \E i \in 1..Len(b) : b[i] = 1
    THEN CHOOSE i \in 1..Len(b) : b[i] = 1 /\ \A j \in 1..(i - 1) : b[j] = 0
    ELSE 0

\* Round the exact value bits (bits[1] = 1 of exponent msbExp, plus a sticky
\* remainder below the last bit) to 53 bits, to nearest, ties to even.
Round53(bits, msbExp, sticky) ==
    Eval(bits \o [i \in 1..(MantBits + 1) |-> 0], LAMBDA padded :
    Eval(SubSeq(padded, 1, MantBits), LAMBDA mant :
        LET rnd == padded[MantBits + 1]
            st  == sticky \/ \E i \in (MantBits + 2)..Len(padded) : padded[i] = 1
            up  == rnd = 1 /\ (st \/ mant[MantBits] = 1)
        IN  IF ~up THEN [m |-> mant, e |-> msbExp]
            ELSE IF \A i \in 1..MantBits : mant[i] = 1
                 THEN [m |-> [i \in 1..MantBits |-> IF i = 1 THEN 1 ELSE 0],
                       e |-> msbExp + 1]
                 ELSE [m |-> IncBits(mant), e |-> msbExp]))

\* p / r of two ints (Python true division): the correctly rounded quotient.
FloatDiv(p, r) ==
    IF p = 0 THEN FloatZero
    ELSE Eval(FracLimbs(p % r, r, 8), LAMBDA limbs :
         Eval(IntBits(p \div r) \o FracBits(limbs), LAMBDA all :
         Eval(FirstOne(all), LAMBDA j :
             Round53(SubSeq(all, j, Len(all)), (Len(all) - 96) - j, limbs[9] # 0))))

\* x * c for a float x and an int c, 0 < c < 2^11 (exactly representable).
FloatMulInt(x, c) ==
    IF x.m = << >> THEN FloatZero
    ELSE Eval(MulBits(x.m, c), LAMBDA prod :
             Round53(prod, x.e + (Len(prod) - MantBits), FALSE))

\* int(x): truncation towards zero.
FloatTrunc(x) ==
    IF x.m = << >> \/ x.e < 0 THEN 0
    ELSE BitsToInt(SubSeq(x.m, 1, x.e + 1))

\* LibChapters.__samples_to_millis: int((samples / framerate) * 1000)
SamplesToMillis(rate, samples) ==
    Eval(FloatDiv(samples, rate), LAMBDA quotient :
    Eval(FloatMulInt(quotient, 1000), LAMBDA product : FloatTrunc(product)))

(***************************************************************************)
(* str(n) and int(s) for non-negative ints: a string of decimal digits is  *)
(* the sequence of its digits, "" is << >>, and int("") raises ValueError. *)
(***************************************************************************)
RECURSIVE Str(_)
Str(n) == IF n < 10 THEN <<n>> ELSE Append(Str(n \div 10), n % 10)

RECURSIVE ParseInt(_)
ParseInt(s) ==
    IF Len(s) = 1 THEN s[1]
    ELSE 10 * ParseInt(SubSeq(s, 1, Len(s) - 1)) + s[Len(s)]

IntRaises(s) == s = << >>

(***************************************************************************)
(* WAV files.  A file is its RIFF magic and form type, the frame rate and  *)
(* frame count the wave module reads from it, and its chunks in file       *)
(* order: "cue " with its point records (cue id, sample position), "LIST"  *)
(* (the 12-byte header of the adtl list), "labl" (cue id, label) and any   *)
(* other chunk ("fmt ", "data"), which the walk skips.  Every chunk but    *)
(* the list header carries the size its header declares; on disk a chunk   *)
(* is its 8-byte header, its data and a pad byte when the data is of odd   *)
(* length.  A chunk the walk does not know also carries the number of data *)
(* bytes stored, which a damaged header need not declare.  The stream may  *)
(* lack the last bytes of this layout (truncated), and the RIFF header may *)
(* declare fewer bytes than the layout (riff_short).  The walk is by byte  *)
(* offset: the bytes at an offset that is not the start of a chunk are not *)
(* modelled.                                                               *)
(***************************************************************************)
CueChunk(points) == [id |-> "cue ", size |-> 4 + 24 * Len(points), points |-> points]

ListChunk == [id |-> "LIST"]

\* the data of a labl chunk: the cue id and the label, NUL-terminated
LablChunk(cue_id, label) ==
    [id |-> "labl", size |-> 4 + Len(label) + 1, cue_id |-> cue_id, label |-> label]

OtherChunk(id, size) == [id |-> id, size |-> size, stored |-> size]

\* a chunk the walk does not know whose header declares size, a signed
\* 32-bit int, and that holds stored bytes of data
SizedChunk(id, size, stored) == [id |-> id, size |-> size, stored |-> stored]

Known == {"cue ", "LIST", "labl"}

\* the bytes of chunk c on disk
Extent(c) ==
    IF c.id = "LIST" THEN 12
    ELSE IF c.id \in Known THEN 8 + c.size + (c.size % 2)
    ELSE 8 + c.stored + (c.stored % 2)

\* the offset of chunk i, after the 12 bytes of the RIFF header
RECURSIVE ChunkStart(_, _)
ChunkStart(chunks, i) ==
    IF i = 1 THEN 12 ELSE ChunkStart(chunks, i - 1) + Extent(chunks[i - 1])

\* the bytes of the whole layout
FileSize(chunks) == ChunkStart(chunks, Len(chunks) + 1)

\* fsize of __read_riff_chunk: the RIFF size field + 8
DeclaredSize(f) == FileSize(f.chunks) - f.riff_short

\* the bytes the stream holds
StreamLength(f) == FileSize(f.chunks) - f.truncated

\* the chunk that starts at offset pos, or 0
ChunkAt(chunks, pos) ==
    IF \E i \in 1..Len(chunks) : ChunkStart(chunks, i) = pos
    THEN CHOOSE i \in 1..Len(chunks) : ChunkStart(chunks, i) = pos
    ELSE 0

\* __skip_unknown_chunk after the chunk id, with no pad byte skipped
SkipUnpadded(size) == 4 + size

\* __skip_unknown_chunk: the bytes it moves over after the chunk id
SkipUnknownChunk(size) == 4 + (IF size % 2 = 1 THEN size + 1 ELSE size)

\* the bytes one turn of the chunk loop moves over, for the chunk c it is at
Consumed(c) ==
    IF c.id = "cue " THEN 4 + 8 + 24 * Len(c.points)
    ELSE IF c.id = "LIST" THEN 4 + 8
    ELSE IF c.id = "labl" THEN 4 + 8 + ((c.size + (c.size % 2)) - 4)
    ELSE 4 + SkipUnknownChunk(c.size)

\* markersdict: a defaultdict, in insertion order, of
\* cue id -> {"timestamp": "", "label": ""}
DictIndex(md, key) ==
    IF \E i \in 1..Len(md) : md[i].key = key
    THEN CHOOSE i \in 1..Len(md) : md[i].key = key
    ELSE 0

DictGetOrCreate(md, key) ==
    IF DictIndex(md, key) # 0 THEN md
    ELSE Append(md, [key |-> key, timestamp |-> << >>, label |-> ""])

\* a markersdict[cue_id]["timestamp"] = ts that keeps a timestamp already set
KeepTimestamp(md, key, ts) ==
    IF DictIndex(md, key) # 0 THEN md
    ELSE Append(md, [key |-> key, timestamp |-> ts, label |-> ""])

SetTimestamp(md, key, ts) ==
    LET d == DictGetOrCreate(md, key)
    IN  [d EXCEPT ![DictIndex(d, key)].timestamp = ts]

SetLabel(md, key, label) ==
    LET d == DictGetOrCreate(md, key)
    IN  [d EXCEPT ![DictIndex(d, key)].label = label]

\* the for loop over the records of one cue chunk
RECURSIVE ReadCuePoints(_, _, _, _)
ReadCuePoints(rate, points, i, md) ==
    IF i > Len(points) THEN md
    ELSE Eval(Str(SamplesToMillis(rate, points[i].position)), LAMBDA ts :
         Eval(SetTimestamp(md, points[i].cue_id, ts), LAMBDA m :
             ReadCuePoints(rate, points, i + 1, m)))

\* the smaller of two ints
Min(a, b) == IF a <= b THEN a ELSE b

\* one turn of the while loop at offset pos: the error it raises or "", the
\* offset it leaves the stream at and markersdict.  fid.read returns the
\* bytes the stream still holds, struct.unpack raises struct.error on fewer
\* bytes than its format, fid.seek moves past the end of the stream without
\* an error and raises OSError for an offset below 0.
Iteration(f, pos, md) ==
    LET avail == IF pos < StreamLength(f) THEN StreamLength(f) - pos ELSE 0
        i == ChunkAt(f.chunks, pos)
        Raises(e) == [error |-> e, pos |-> pos, md |-> md]
    IN  IF avail < 4 THEN Raises("struct.error")
        ELSE IF i = 0 THEN Raises("desynchronized")
        ELSE Eval(f.chunks[i], LAMBDA c :
             IF c.id = "cue "
             THEN IF avail < Consumed(c) THEN Raises("struct.error")
                  ELSE [error |-> "", pos |-> pos + Consumed(c),
                        md |-> ReadCuePoints(f.rate, c.points, 1, md)]
             ELSE IF c.id = "LIST"
             THEN [error |-> "", pos |-> pos + Min(Consumed(c), avail), md |-> md]
             ELSE IF c.id = "labl"
             THEN IF avail < 4 + 8 THEN Raises("struct.error")
                  ELSE LET got == Min(Consumed(c), avail) - (4 + 8)
                       IN  [error |-> "", pos |-> pos + 4 + 8 + got,
                            md |-> SetLabel(md, c.cue_id,
                                            SubSeq(c.label, 1, Min(Len(c.label), got)))]
             ELSE IF avail < 4 + 4 THEN Raises("struct.error")
             ELSE IF pos + Consumed(c) < 0 THEN Raises("OSError")
             ELSE [error |-> "", pos |-> pos + Consumed(c), md |-> md])

\* the while loop over the chunks of the file, from offset pos: how it ends
\* ("end", or the error raised) and markersdict.  A turn at an offset of the
\* set seen, where an earlier turn was, repeats that turn and all that
\* followed: the loop never ends ("never returns").
RECURSIVE WalkChunks(_, _, _, _)
WalkChunks(f, pos, md, seen) ==
    IF pos >= DeclaredSize(f) THEN [outcome |-> "end", md |-> md]
    ELSE IF pos \in seen THEN [outcome |-> "never returns", md |-> << >>]
    ELSE Eval(Iteration(f, pos, md), LAMBDA it :
             IF it.error # "" THEN [outcome |-> it.error, md |-> << >>]
             ELSE WalkChunks(f, it.pos, it.md, seen \cup {pos}))

\* sorted(markers, key=lambda k: int(k["timestamp"])): a stable sort
RECURSIVE InsertByTimestamp(_, _)
InsertByTimestamp(sorted, x) ==
    IF sorted = << >> THEN <<x>>
    ELSE IF ParseInt(sorted[Len(sorted)].timestamp) <= ParseInt(x.timestamp)
         THEN Append(sorted, x)
         ELSE Append(InsertByTimestamp(SubSeq(sorted, 1, Len(sorted) - 1), x),
                     sorted[Len(sorted)])

RECURSIVE StableSort(_, _, _)
StableSort(ms, i, acc) ==
    IF i > Len(ms) THEN acc
    ELSE Eval(InsertByTimestamp(acc, ms[i]), LAMBDA sorted : StableSort(ms, i + 1, sorted))

\* the markers in the order of the dictionary, had they not been sorted
UnsortedMarkers(md) == md

SortedMarkers(md) == StableSort(md, 1, << >>)

\* the loop that builds the Chapter list from the sorted markers
BuildChapters(rate, nframes, sm) ==
    Eval(sm, LAMBDA sorted_markers :
        [idx \in 1..Len(sorted_markers) |->
            [start |-> ParseInt(sorted_markers[idx].timestamp),
             end   |-> IF idx + 1 <= Len(sorted_markers)
                       THEN ParseInt(sorted_markers[idx + 1].timestamp)
                       ELSE SamplesToMillis(rate, nframes),
             name  |-> sorted_markers[idx].label]])

\* LibChapters.__read_riff_chunk raises ValueError("Not a WAV file.")
RiffRaises(f) == f.magic # "RIFF" \/ f.form # "WAVE"

\* wave.open(path) raises wave.Error unless the file is a RIFF/WAVE file with
\* a "fmt " chunk followed by a "data" chunk
WaveOpenRaises(f) ==
    \/ f.magic # "RIFF"
    \/ f.form # "WAVE"
    \/ ~\E i, j \in 1..Len(f.chunks) :
            i < j /\ f.chunks[i].id = "fmt " /\ f.chunks[j].id = "data"

\* LibChapters.__read_chapters_from_wav_file: the chapters, or the error
\* raised, or "never returns"
ReadChaptersFromWavFile(f) ==
    IF WaveOpenRaises(f) THEN [ok |-> FALSE, error |-> "wave.Error", chapters |-> << >>]
    ELSE IF RiffRaises(f) THEN [ok |-> FALSE, error |-> "ValueError", chapters |-> << >>]
    ELSE Eval(WalkChunks(f, 12, << >>, {}), LAMBDA w :
             IF w.outcome # "end"
             THEN [ok |-> FALSE, error |-> w.outcome, chapters |-> << >>]
             ELSE IF \E i \in 1..Len(w.md) : IntRaises(w.md[i].timestamp)
             THEN [ok |-> FALSE, error |-> "ValueError", chapters |-> << >>]
             ELSE [ok |-> TRUE, error |-> "",
                   chapters |-> BuildChapters(f.rate, f.nframes, SortedMarkers(w.md))])

(***************************************************************************)
(* Python values of the MetaData fields: None, a str, an int or a list.    *)
(* A value is its type and, in the field of that type, its content.        *)
(***************************************************************************)
PyNone == [type |-> "none", str |-> "", int |-> 0, list |-> << >>]

PyStr(s) == [type |-> "str", str |-> s, int |-> 0, list |-> << >>]

PyInt(n) == [type |-> "int", str |-> "", int |-> n, list |-> << >>]

PyList(l) == [type |-> "list", str |-> "", int |-> 0, list |-> l]

\* the truth value of x in "if x:"
Truthy(x) ==
    CASE x.type = "none" -> FALSE
      [] x.type = "str"  -> x.str # ""
      [] x.type = "int"  -> x.int # 0
      [] x.type = "list" -> x.list # << >>

(***************************************************************************)
(* __guess_podcast_info_from_filename.  A path is the sequence of its      *)
(* characters.                                                             *)
(***************************************************************************)
\* a str given by its characters
PyChars(cs) == [type |-> "str", str |-> "", int |-> 0, list |-> cs]

\* [0-9]
DigitChars == {"0", "1", "2", "3", "4", "5", "6", "7", "8", "9"}

DigitValue(c) ==
    CASE c = "0" -> 0 [] c = "1" -> 1 [] c = "2" -> 2 [] c = "3" -> 3 [] c = "4" -> 4
      [] c = "5" -> 5 [] c = "6" -> 6 [] c = "7" -> 7 [] c = "8" -> 8 [] c = "9" -> 9

\* the character of a digit
DigitChar(d) == CHOOSE c \in DigitChars : DigitValue(c) = d

\* str(n) for an int n >= 0, by its characters
StrChars(n) == [i \in 1..Len(Str(n)) |-> DigitChar(Str(n)[i])]

\* int(s) for a str s given by its characters, all of them digits
IntChars(cs) == ParseInt([j \in 1..Len(cs) |-> DigitValue(cs[j])])

\* int(s) raises ValueError: s is empty or holds a character that is not a
\* digit (the strings modelled hold no sign, blank or underscore)
IntCharsRaises(cs) == cs = << >> \/ \E j \in 1..Len(cs) : cs[j] \notin DigitChars

\* os.path.basename(path): what follows the last "/"
Basename(path) ==
    LET slashes == {i \in 1..Len(path) : path[i] = "/"}
    IN  IF slashes = {} THEN path
        ELSE SubSeq(path, (CHOOSE i \in slashes : \A j \in slashes : j <= i) + 1, Len(path))

\* os.path.splitext(name)[0]: name up to its last ".", unless only "."s come
\* before that "."
SplitextRoot(name) ==
    LET dots == {i \in 1..Len(name) : name[i] = "."}
    IN  IF dots = {} THEN name
        ELSE LET last == CHOOSE i \in dots : \A j \in dots : j <= i
             IN  IF \E j \in 1..(last - 1) : name[j] # "." THEN SubSeq(name, 1, last - 1)
                 ELSE name

\* the index after the longest run of the characters of set cs from index i
RECURSIVE SkipRun(_, _, _)
SkipRun(s, i, cs) ==
    IF i <= Len(s) /\ s[i] \in cs THEN SkipRun(s, i + 1, cs) ELSE i

\* the lengths d of ([0-9]{1,3}) with which " *-" matches after s[i..i+d-1]
DigitCounts(s, i) ==
    {d \in 1..3 :
        /\ i + d - 1 <= Len(s)
        /\ \A j \in i..(i + d - 1) : s[j] \in DigitChars
        /\ LET h == SkipRun(s, i + d, {" "}) IN h <= Len(s) /\ s[h] = "-"}

\* re.search("([0-9]{1,3}) *- *(.*)", s): the leftmost match, with the
\* longest group 1 that matches there ({1,3}, " *" and ".*" are greedy)
ReSearch(s) ==
    LET starts == {i \in 1..Len(s) : DigitCounts(s, i) # {}}
    IN  IF starts = {} THEN [matched |-> FALSE, group1 |-> << >>, group2 |-> << >>]
        ELSE LET i == CHOOSE k \in starts : \A j \in starts : k <= j
                 d == CHOOSE k \in DigitCounts(s, i) : \A j \in DigitCounts(s, i) : j <= k
                 h == SkipRun(s, i + d, {" "})
                 t == SkipRun(s, h + 1, {" "})
                 e == CHOOSE k \in t..(Len(s) + 1) :
                          /\ \A j \in t..(k - 1) : s[j] # "\n"
                          /\ k = Len(s) + 1 \/ s[k] = "\n"
             IN  [matched |-> TRUE, group1 |-> SubSeq(s, i, i + d - 1),
                  group2 |-> SubSeq(s, t, e - 1)]

\* __guess_podcast_info_from_filename(path_to_file)
GuessPodcastInfoFromFilename(path_to_file) ==
    LET match_info == ReSearch(SplitextRoot(Basename(path_to_file)))
    IN  IF match_info.matched
        THEN [episode_number |->
                  PyInt(ParseInt([j \in 1..Len(match_info.group1) |->
                                     DigitValue(match_info.group1[j])])),
              episode_title |-> PyChars(match_info.group2)]
        ELSE [episode_number |-> PyNone, episode_title |-> PyNone]

(***************************************************************************)
(* ID3 tags (mutagen.id3.ID3): the frames, keyed by frame id (and element  *)
(* id for CTOC and CHAP), in the order they were added.  A text frame      *)
(* holds a list of strings: mutagen wraps a single text in a list.  The     *)
(* text of a TRCK frame is the sequence of its characters.  An ID3 object  *)
(* holds at most one frame per frame id and, for CHAP, per element id.     *)
(***************************************************************************)
TextFrame(id, text) == [id |-> id, text |-> <<text>>]

ChapId(index) == <<"chp", index>>

CtocFrame(children) ==
    [id |-> "CTOC", element_id |-> "toc", flags |-> {"TOP_LEVEL", "ORDERED"},
     child_element_ids |-> children]

\* a CHAP frame with no sub-frame
ChapFrameUntitled(index, chapter) ==
    [id |-> "CHAP", element_id |-> ChapId(index),
     start_time |-> chapter.start, end_time |-> chapter.end,
     sub_frames |-> << >>]

ChapFrame(index, chapter) ==
    [id |-> "CHAP", element_id |-> ChapId(index),
     start_time |-> chapter.start, end_time |-> chapter.end,
     sub_frames |-> <<TextFrame("TIT2", chapter.name.str)>>]

\* LibChapters.__get_tags
GetTags(metadata) ==
    LET t1 == IF Truthy(metadata.podcast_title)
              THEN <<TextFrame("TPE1", metadata.podcast_title.str)>> ELSE << >>
        t2 == IF Truthy(metadata.episode_title)
              THEN <<TextFrame("TIT2", metadata.episode_title.str)>> ELSE << >>
        t3 == IF Truthy(metadata.episode_number)
              THEN <<TextFrame("TRCK", StrChars(metadata.episode_number.int))>> ELSE << >>
        t4 == IF Truthy(metadata.chapters)
              THEN LET n == Len(metadata.chapters.list)
                   IN  <<CtocFrame([i \in 1..n |-> ChapId(i - 1)])>>
                       \o [i \in 1..n |-> ChapFrame(i - 1, metadata.chapters.list[i])]
              ELSE << >>
    IN  t1 \o t2 \o t3 \o t4

\* tags.get(id): the frame, or None
HasFrame(tags, id) == \E i \in 1..Len(tags) : tags[i].id = id

GetFrame(tags, id) == tags[CHOOSE i \in 1..Len(tags) : tags[i].id = id]

\* tags.getall(id): the frames of that id, in order
GetAll(tags, id) == SelectSeq(tags, LAMBDA f : f.id = id)

\* LibChapters.__get_podcast_name_from_id3_tags
GetPodcastNameFromId3Tags(tags) ==
    IF HasFrame(tags, "TPE1") /\ GetFrame(tags, "TPE1").text # << >>
    THEN PyStr(GetFrame(tags, "TPE1").text[1]) ELSE PyNone

\* LibChapters.__get_episode_title_from_id3_tags
GetEpisodeTitleFromId3Tags(tags) ==
    IF HasFrame(tags, "TIT2") /\ GetFrame(tags, "TIT2").text # << >>
    THEN PyStr(GetFrame(tags, "TIT2").text[1]) ELSE PyNone

\* LibChapters.__get_episode_number_from_id3_tags
GetEpisodeNumberFromId3Tags(tags) ==
    IF HasFrame(tags, "TRCK") /\ GetFrame(tags, "TRCK").text # << >>
    THEN PyInt(IntChars(GetFrame(tags, "TRCK").text[1])) ELSE PyNone

\* __get_episode_number_from_id3_tags raises ValueError: int(trck_tag.text[0])
\* of a text that is not a decimal integer
EpisodeNumberRaises(tags) ==
    /\ HasFrame(tags, "TRCK")
    /\ GetFrame(tags, "TRCK").text # << >>
    /\ IntCharsRaises(GetFrame(tags, "TRCK").text[1])

\* LibChapters.__get_chapters_from_id3_tags, for tags in which every child id
\* of the first CTOC frame has its CHAP frame (DecodeRaises tells the others)
GetChaptersFromId3Tags(tags) ==
    LET chaps == GetAll(tags, "CHAP")
        ctocs == GetAll(tags, "CTOC")
        chap(cid) == chaps[CHOOSE i \in 1..Len(chaps) : chaps[i].element_id = cid]
        tit2(c) == SelectSeq(c.sub_frames, LAMBDA f : f.id = "TIT2")
    IN  IF ctocs # << >>
        THEN PyList([i \in 1..Len(ctocs[1].child_element_ids) |->
                 LET c == chap(ctocs[1].child_element_ids[i])
                 IN  [name  |-> IF tit2(c) # << >> THEN PyList(tit2(c)[1].text)
                                ELSE PyStr(""),
                      start |-> c.start_time,
                      end   |-> c.end_time]])
        ELSE PyList(<< >>)

\* the MetaData that LibChapters.__read_metadata_from_mp3_file builds
DecodeTags(tags) ==
    [podcast_title  |-> GetPodcastNameFromId3Tags(tags),
     episode_title  |-> GetEpisodeTitleFromId3Tags(tags),
     episode_number |-> GetEpisodeNumberFromId3Tags(tags),
     chapters       |-> GetChaptersFromId3Tags(tags)]

(***************************************************************************)
(* Lame: the parallel encode.                                              *)
(***************************************************************************)
\* the batch size passed to update_samples_to_read
ChunkSize == 1024

\* Lame.update_samples_to_read: <<samples_to_read, samples_left>>
UpdateSamplesToRead(samples_left, chunk_size) ==
    IF samples_left > chunk_size
    THEN <<chunk_size, samples_left - chunk_size>>
    ELSE <<samples_left, 0>>

\* Lame.make_multiple
RECURSIVE MakeMultiple(_, _)
MakeMultiple(number, divisor) ==
    IF number % divisor # 0 THEN MakeMultiple(number + 1, divisor) ELSE number

\* int(a / b) for ints a >= 0, b > 0
IntOfQuotient(a, b) == Eval(FloatDiv(a, b), LAMBDA quotient : FloatTrunc(quotient))

\* wave.Wave_read.readframes(n) at cursor pos of a file of total frames:
\* the number of frames returned
ReadFrames(pos, n, total) == IF pos + n <= total THEN n ELSE total - pos

\* wave.Wave_read.setpos(pos) raises wave.Error("position not in range")
SetposRaises(pos, total) == pos < 0 \/ pos > total

\* what the encoder process of worker k writes to its output stream for the
\* n samples it was fed; ok is FALSE for a process that exited non-zero
Encoded(k, n, ok) == IF n = 0 THEN << >> ELSE <<[w |-> k, n |-> n, ok |-> ok]>>

(***************************************************************************)
(* Bounds of the model.                                                    *)
(***************************************************************************)
\* os.cpu_count() ranges over 1..MaxCpus
MaxCpus == 3

\* the cue chunk of a WAV input holds at most MaxCues records
MaxCues == 3

\* a MetaData input holds at most MaxChapters chapters
MaxChapters == 2

\* at most MaxProcFailures encoder processes of one encode exit non-zero or
\* block
MaxProcFailures == 1

\* the input pipe of an encoder process (stdin=PIPE) holds StdinCapacity
\* batches that the process has not read
StdinCapacity == 1

\* frame counts of the WAV file that is encoded
SampleCounts == {0, 1, 2, 5, 1024, 1025, 2048, 2049, 3000, 4096, 4100}

\* os.cpu_count() and the frame count of the WAV file: every frame count on
\* up to two workers, and the small files (fewer frames than workers) on more
EncodeInputs ==
    {in \in (1..MaxCpus) \X SampleCounts : in[1] <= 2 \/ (0 < in[2] /\ in[2] < in[1])}

(***************************************************************************)
(* State.                                                                  *)
(***************************************************************************)
VARIABLES
    wavIn,      \* SpecWav: the WAV file read
    wavOut,     \* SpecWav: what __read_chapters_from_wav_file returned or raised
    tagIn,      \* SpecTags: the MetaData encoded
    tagTags,    \* SpecTags: the tags __get_tags built from it
    tagOut,     \* SpecTags: the MetaData decoded from the tags
    cpus,       \* os.cpu_count()
    nframes,    \* wav_file.getnframes() of the WAV file that is encoded
    mp3_data,   \* LibChapters.mp3_data
    opKind,     \* per operation thread (run_async): the facade method it runs
    opPc,       \* per operation thread: where it is
    opArg,      \* per operation thread: its arguments and local variables
    opResult,   \* per operation: what its complete notification carried
    disk,       \* the files: per path, whether it exists, its audio bytes, its tags
    events,     \* per operation: the notifications its listener received, in
                \* order (consecutive progress notifications written once)
    progress,   \* per operation: the last progress value its listener received
    lame,       \* per encode: samples_per_thread, AggregateListener.progress_dict,
                \* output_chunks, mp3_output and the index of the concatenation loop
    workers,    \* per encode: its encode_chunk threads, encoder processes and
                \* drain threads
    finished,   \* per encode: the worker threads in the order they ended
    gui         \* MainWindow: the signals of LibChaptersListener not yet handled,
                \* current_file, current_file_type, the widgets enabled, the
                \* chapters of its ChaptersTableModel and the last setData call

wavVars == <<wavIn, wavOut>>

tagVars == <<tagIn, tagTags, tagOut>>

vars == <<wavIn, wavOut, tagIn, tagTags, tagOut, cpus, nframes, mp3_data, opKind, opPc,
          opArg, opResult, disk, events, progress, lame, workers, finished, gui>>

\* the operation threads (run_async) of one run
MaxOps == 2

Ops == 1..MaxOps

NoData == [set |-> FALSE, data |-> << >>]

NoLame == [share |-> 0, progress_dict |-> << >>, output_chunks |-> << >>,
           mp3_output |-> << >>, idx |-> 0]

NoArg == [path |-> "", src |-> "", wav |-> << >>, meta |-> << >>, total |-> 0, tell |-> 0]

NoResult == [set |-> FALSE, value |-> << >>]

NoFile == [exists |-> FALSE, bytes |-> 0, tags |-> << >>]

Paths == {"a.mp3", "b.mp3"}

NoWav ==
    [path |-> << >>, magic |-> "", form |-> "", rate |-> 1, nframes |-> 0,
     chunks |-> << >>, truncated |-> 0, riff_short |-> 0]

NotRead == [done |-> FALSE, ok |-> FALSE, error |-> "", chapters |-> << >>]

NoMeta == [podcast_title |-> PyNone, episode_title |-> PyNone,
           episode_number |-> PyNone, chapters |-> PyNone]

NoTags == [built |-> FALSE, frames |-> << >>]

NotDecoded == [done |-> FALSE, metadata |-> NoMeta]

WavIdle == wavIn = NoWav /\ wavOut = NotRead

TagIdle == tagIn = NoMeta /\ tagTags = NoTags /\ tagOut = NotDecoded

\* no MainWindow: the listener of LibChapters emits no signal
NoGui == [attached |-> FALSE, queue |-> << >>, current_file |-> "", current_file_type |-> "",
          menu |-> TRUE, central |-> TRUE, table |-> TRUE,
          chapters |-> << >>, edited |-> [column |-> "", value |-> << >>]]

FacadeIdle ==
    /\ gui = NoGui
    /\ mp3_data = NoData
    /\ opKind = [o \in Ops |-> ""]
    /\ opPc = [o \in Ops |-> "idle"]
    /\ opArg = [o \in Ops |-> NoArg]
    /\ opResult = [o \in Ops |-> NoResult]
    /\ events = [o \in Ops |-> << >>]
    /\ progress = [o \in Ops |-> 0]
    /\ lame = [o \in Ops |-> NoLame]
    /\ workers = [o \in Ops |-> << >>]
    /\ finished = [o \in Ops |-> << >>]

(***************************************************************************)
(* Spec: an import and a save on a fresh LibChapters: encode_wav_file,     *)
(* and once it has ended write_mp3_data_with_metadata.                     *)
(***************************************************************************)
Init ==
    /\ WavIdle
    /\ TagIdle
    /\ \E in \in EncodeInputs : cpus = in[1] /\ nframes = in[2]
    /\ disk = [p \in Paths |-> NoFile]
    /\ FacadeIdle

\* LibChaptersListener: signal.emit() from an operation thread queues the
\* signal for the thread of MainWindow (consecutive progress signals of an
\* operation are queued once)
Emit(queue, o, kind) ==
    IF kind = "progress" /\ queue # << >> /\ queue[Len(queue)] = [op |-> o, kind |-> kind]
    THEN queue ELSE Append(queue, [op |-> o, kind |-> kind])

\* a call of the listener: started, progress or complete
Notify(o, kind) ==
    /\ events' = [events EXCEPT ![o] =
                     IF kind = "progress" /\ @ # << >> /\ @[Len(@)] = "progress"
                     THEN @ ELSE Append(@, kind)]
    /\ gui' = IF gui.attached THEN [gui EXCEPT !.queue = Emit(@, o, kind)] ELSE gui

\* LibChapters.encode_wav_file: run_async(__encode_file)
EncodeWavFile(o) ==
    /\ opPc[o] = "idle"
    /\ opKind' = [opKind EXCEPT ![o] = "encode"]
    /\ opPc' = [opPc EXCEPT ![o] = "start"]
    /\ UNCHANGED <<wavVars, tagVars, opArg, opResult, disk, cpus, nframes, mp3_data, events, gui, progress, lame,
                   workers, finished>>

\* __encode_file: self.listener.encode_started()
EncodeStarted(o) ==
    /\ opKind[o] = "encode" /\ opPc[o] = "start"
    /\ Notify(o, "started")
    /\ opPc' = [opPc EXCEPT ![o] = "encode"]
    /\ UNCHANGED <<wavVars, tagVars, opArg, opResult, disk, cpus, nframes, mp3_data, opKind, progress, lame,
                   workers, finished>>

\* encode_chunk up to its while loop: Popen, the drain thread and the first
\* update_samples_to_read
NewWorker(offset, share) ==
    LET u == UpdateSamplesToRead(share, ChunkSize)
    IN  [pc |-> "loop", first |-> offset, pos |-> offset, total |-> share,
         samples_to_read |-> u[1], samples_left |-> u[2], last_progress |-> 0,
         pending |-> 0, avg |-> 0, final |-> FALSE, fed |-> 0, stdin |-> 0,
         proc |-> "running", drain |-> "running"]

\* Lame.encode up to the start of the worker threads: the shares, and per
\* worker a cursor (setpos), an output buffer, add_id and the started thread
LameEncode(o) ==
    /\ opKind[o] = "encode" /\ opPc[o] = "encode"
    /\ LET num_samples == MakeMultiple(nframes, cpus)
           samples_per_thread == IntOfQuotient(num_samples, cpus)
       IN  IF \E i \in 0..(cpus - 1) : SetposRaises(samples_per_thread * i, nframes)
           THEN /\ opPc' = [opPc EXCEPT ![o] = "raised"]
                /\ UNCHANGED <<lame, workers>>
           ELSE /\ opPc' = [opPc EXCEPT ![o] = "join"]
                /\ lame' = [lame EXCEPT ![o] =
                       [share |-> samples_per_thread,
                        progress_dict |-> [k \in 1..cpus |-> 0],
                        output_chunks |-> [k \in 1..cpus |-> << >>],
                        mp3_output |-> << >>, idx |-> 0]]
                /\ workers' = [workers EXCEPT ![o] =
                       [k \in 1..cpus |->
                           NewWorker(samples_per_thread * (k - 1), samples_per_thread)]]
    /\ UNCHANGED <<wavVars, tagVars, opArg, opResult, disk, cpus, nframes, mp3_data, opKind, events, gui, progress,
                   finished>>

Running(o, k) == k \in 1..Len(workers[o])

SetWorker(o, k, w) == workers' = [workers EXCEPT ![o][k] = w]

\* the percentage of the samples left, not of the samples read
PercentLeft(total_samples_to_read, samples_left) ==
    IntOfQuotient(samples_left * 100, total_samples_to_read)

\* encode_chunk: progress =
\*     int((total_samples_to_read - samples_left) * 100 / total_samples_to_read)
ChunkProgress(total_samples_to_read, samples_left) ==
    IntOfQuotient((total_samples_to_read - samples_left) * 100, total_samples_to_read)

\* process.stdin.write returns: the encoder reads its input, or it is
\* blocked and its input pipe has room for one more batch
StdinAccepts(w) ==
    \/ w.proc = "running"
    \/ w.proc = "blocked" /\ w.stdin < StdinCapacity

\* encode_chunk, one turn of the while loop up to the call of encode_update:
\* process.stdin.write(file.readframes(samples_to_read)), the percentage and,
\* when it differs from the last one, the entry of AggregateListener.encode_update
\* (self.progress_dict[thread_id] = progress)
FeedBatch(o, k) ==
    /\ Running(o, k) /\ workers[o][k].pc = "loop"
    /\ workers[o][k].samples_left > 0
    /\ StdinAccepts(workers[o][k])
    /\ LET v == workers[o][k]
           w == [v EXCEPT !.stdin = IF v.proc = "blocked" THEN @ + 1 ELSE @]
           n == ReadFrames(w.pos, w.samples_to_read, nframes)
           p == ChunkProgress(w.total, w.samples_left)
           u == UpdateSamplesToRead(w.samples_left, ChunkSize)
       IN  IF p # w.last_progress
           THEN /\ SetWorker(o, k, [w EXCEPT !.pos = @ + n, !.fed = @ + n,
                                             !.pending = p, !.pc = "upd_read"])
                /\ lame' = [lame EXCEPT ![o].progress_dict[k] = p]
           ELSE /\ SetWorker(o, k, [w EXCEPT !.pos = @ + n, !.fed = @ + n,
                                             !.samples_to_read = u[1],
                                             !.samples_left = u[2]])
                /\ UNCHANGED lame
    /\ UNCHANGED <<wavVars, tagVars, opArg, opResult, disk, cpus, nframes, mp3_data, opKind, opPc, events, gui,
                   progress, finished>>

\* process.stdin.write raises (the pipe is broken): the encoder has exited
FeedRaises(o, k) ==
    /\ Running(o, k) /\ workers[o][k].pc = "loop"
    /\ workers[o][k].samples_left > 0
    /\ workers[o][k].proc = "failed"
    /\ SetWorker(o, k, [workers[o][k] EXCEPT !.pc = "raised"])
    /\ finished' = [finished EXCEPT ![o] = Append(@, k)]
    /\ UNCHANGED <<wavVars, tagVars, opArg, opResult, disk, cpus, nframes, mp3_data, opKind, opPc, events, gui,
                   progress, lame>>

\* the while loop ends (samples_left is 0): self.listener.encode_update(thread_id, 100)
\* is entered (self.progress_dict[thread_id] = 100)
LoopExit(o, k) ==
    /\ Running(o, k) /\ workers[o][k].pc = "loop"
    /\ workers[o][k].samples_left = 0
    /\ SetWorker(o, k, [workers[o][k] EXCEPT !.pending = 100, !.final = TRUE,
                                              !.pc = "upd_read"])
    /\ lame' = [lame EXCEPT ![o].progress_dict[k] = 100]
    /\ UNCHANGED <<wavVars, tagVars, opArg, opResult, disk, cpus, nframes, mp3_data, opKind, opPc, events, gui,
                   progress, finished>>

RECURSIVE Sum(_, _)
Sum(values, i) == IF i > Len(values) THEN 0 ELSE values[i] + Sum(values, i + 1)

\* an encode_update that reports the worker's own percentage, not the mean
UpdateReadOwn(o, k) ==
    /\ Running(o, k) /\ workers[o][k].pc = "upd_read"
    /\ SetWorker(o, k, [workers[o][k] EXCEPT !.avg = lame[o].progress_dict[k],
                                              !.pc = "upd_notify"])
    /\ UNCHANGED <<wavVars, tagVars, opArg, opResult, disk, cpus, nframes, mp3_data, opKind, opPc, events, gui,
                   progress, lame, finished>>

\* AggregateListener.encode_update: avg_progress = int(sum(values) / len(values));
\* sum(values) runs as one call of the interpreter, no other thread writes
\* the table during it
UpdateRead(o, k) ==
    /\ Running(o, k) /\ workers[o][k].pc = "upd_read"
    /\ LET values == lame[o].progress_dict
       IN  SetWorker(o, k, [workers[o][k] EXCEPT
               !.avg = IntOfQuotient(Sum(values, 1), Len(values)),
               !.pc = "upd_notify"])
    /\ UNCHANGED <<wavVars, tagVars, opArg, opResult, disk, cpus, nframes, mp3_data, opKind, opPc, events, gui,
                   progress, lame, finished>>

\* AggregateListener.encode_update: self.wrapped_listener.encode_update(avg_progress),
\* then back in encode_chunk: the next batch, or on to stdin.close()
UpdateNotify(o, k) ==
    /\ Running(o, k) /\ workers[o][k].pc = "upd_notify"
    /\ Notify(o, "progress")
    /\ progress' = [progress EXCEPT ![o] = workers[o][k].avg]
    /\ LET w == workers[o][k]
           u == UpdateSamplesToRead(w.samples_left, ChunkSize)
       IN  IF w.final
           THEN SetWorker(o, k, [w EXCEPT !.pc = "close"])
           ELSE SetWorker(o, k, [w EXCEPT !.last_progress = w.pending,
                                         !.samples_to_read = u[1],
                                         !.samples_left = u[2], !.pc = "loop"])
    /\ UNCHANGED <<wavVars, tagVars, opArg, opResult, disk, cpus, nframes, mp3_data, opKind, opPc, lame,
                   finished>>

\* process.stdin.close(): the encoder reads the end of its input
CloseStdin(o, k) ==
    /\ Running(o, k) /\ workers[o][k].pc = "close"
    /\ workers[o][k].proc = "blocked" => workers[o][k].stdin < StdinCapacity
    /\ SetWorker(o, k, [workers[o][k] EXCEPT
           !.pc = "join_drain",
           !.proc = IF @ = "running" THEN "eof" ELSE @])
    /\ UNCHANGED <<wavVars, tagVars, opArg, opResult, disk, cpus, nframes, mp3_data, opKind, opPc, events, gui,
                   progress, lame, finished>>

\* process.stdin.close() raises: it flushes into the pipe of an encoder that
\* has exited
CloseRaises(o, k) ==
    /\ Running(o, k) /\ workers[o][k].pc = "close"
    /\ workers[o][k].proc = "failed"
    /\ SetWorker(o, k, [workers[o][k] EXCEPT !.pc = "raised"])
    /\ finished' = [finished EXCEPT ![o] = Append(@, k)]
    /\ UNCHANGED <<wavVars, tagVars, opArg, opResult, disk, cpus, nframes, mp3_data, opKind, opPc, events, gui,
                   progress, lame>>

\* read_data_thread.join() returns; the streams and the file are closed and
\* the worker thread ends
JoinDrain(o, k) ==
    /\ Running(o, k) /\ workers[o][k].pc = "join_drain"
    /\ workers[o][k].drain = "done"
    /\ SetWorker(o, k, [workers[o][k] EXCEPT !.pc = "done"])
    /\ finished' = [finished EXCEPT ![o] = Append(@, k)]
    /\ UNCHANGED <<wavVars, tagVars, opArg, opResult, disk, cpus, nframes, mp3_data, opKind, opPc, events, gui,
                   progress, lame>>

\* the encoder processes of encode o that have exited non-zero or are blocked
Stopped(o) == {j \in 1..Len(workers[o]) : workers[o][j].proc \in {"failed", "blocked"}}

\* the encoder process blocks in a write to its error stream: the pipe of
\* stderr=PIPE is full, and encode_chunk never reads process.stderr
ProcBlock(o, k) ==
    /\ Running(o, k) /\ workers[o][k].proc = "running"
    /\ Cardinality(Stopped(o)) < MaxProcFailures
    /\ SetWorker(o, k, [workers[o][k] EXCEPT !.proc = "blocked"])
    /\ UNCHANGED <<wavVars, tagVars, opArg, opResult, disk, cpus, nframes, mp3_data, opKind, opPc, events, gui,
                   progress, lame, finished>>

\* the encoder process exits with a non-zero status before the end of its input
ProcFail(o, k) ==
    /\ Running(o, k) /\ workers[o][k].proc = "running"
    /\ Cardinality(Stopped(o)) < MaxProcFailures
    /\ SetWorker(o, k, [workers[o][k] EXCEPT !.proc = "failed"])
    /\ UNCHANGED <<wavVars, tagVars, opArg, opResult, disk, cpus, nframes, mp3_data, opKind, opPc, events, gui,
                   progress, lame, finished>>

\* the drain thread: output.write(process.stdout.read()) returns once the
\* encoder has exited and closed its output stream
Drain(o, k) ==
    /\ Running(o, k) /\ workers[o][k].drain = "running"
    /\ workers[o][k].proc \in {"eof", "failed"}
    /\ lame' = [lame EXCEPT ![o].output_chunks[k] =
                    @ \o Encoded(k, workers[o][k].fed, workers[o][k].proc = "eof")]
    /\ SetWorker(o, k, [workers[o][k] EXCEPT !.drain = "done"])
    /\ UNCHANGED <<wavVars, tagVars, opArg, opResult, disk, cpus, nframes, mp3_data, opKind, opPc, events, gui,
                   progress, finished>>

\* an encode that does not wait for its worker threads
WorkersStarted(o) == \A k \in 1..Len(workers[o]) : workers[o][k].pc # "idle"

\* every thread.join() of Lame.encode returns: each worker thread has ended
WorkersEnded(o) == \A k \in 1..Len(workers[o]) : workers[o][k].pc \in {"done", "raised"}

\* Lame.encode: for thread in threads: thread.join()
JoinWorkers(o) ==
    /\ opKind[o] = "encode" /\ opPc[o] = "join"
    /\ WorkersEnded(o)
    /\ opPc' = [opPc EXCEPT ![o] = "concat"]
    /\ lame' = [lame EXCEPT ![o].idx = 1]
    /\ UNCHANGED <<wavVars, tagVars, opArg, opResult, disk, cpus, nframes, mp3_data, opKind, events, gui, progress,
                   workers, finished>>

\* the order in which the encoder reads its workers' buffers, had it read them
\* in the order the workers ended
CompletionOrder(o) == finished[o]

\* Lame.encode: "for chunk in output_chunks", the list built in worker order
ChunkOrder(o) == [i \in 1..Len(lame[o].output_chunks) |-> i]

\* Lame.encode: mp3_output.write(chunk.getvalue())
ConcatChunk(o) ==
    /\ opKind[o] = "encode" /\ opPc[o] = "concat"
    /\ lame[o].idx <= Len(lame[o].output_chunks)
    /\ lame' = [lame EXCEPT
           ![o].mp3_output = @ \o lame[o].output_chunks[ChunkOrder(o)[lame[o].idx]],
           ![o].idx = @ + 1]
    /\ UNCHANGED <<wavVars, tagVars, opArg, opResult, disk, cpus, nframes, mp3_data, opKind, opPc, events, gui,
                   progress, workers, finished>>

\* Lame.encode returns and __encode_file stores the result in self.mp3_data
EncodeReturn(o) ==
    /\ opKind[o] = "encode" /\ opPc[o] = "concat"
    /\ lame[o].idx > Len(lame[o].output_chunks)
    /\ mp3_data' = [set |-> TRUE, data |-> lame[o].mp3_output]
    /\ opPc' = [opPc EXCEPT ![o] = "complete"]
    /\ UNCHANGED <<wavVars, tagVars, opArg, opResult, disk, cpus, nframes, opKind, events, gui, progress, lame,
                   workers, finished>>

\* __encode_file: self.listener.encode_complete()
EncodeComplete(o) ==
    /\ opKind[o] = "encode" /\ opPc[o] = "complete"
    /\ Notify(o, "complete")
    /\ opPc' = [opPc EXCEPT ![o] = "done"]
    /\ UNCHANGED <<wavVars, tagVars, opArg, opResult, disk, cpus, nframes, mp3_data, opKind, progress, lame,
                   workers, finished>>

WorkerStep(o, k) ==
    \/ FeedBatch(o, k)
    \/ FeedRaises(o, k)
    \/ LoopExit(o, k)
    \/ UpdateRead(o, k)
    \/ UpdateNotify(o, k)
    \/ CloseStdin(o, k)
    \/ CloseRaises(o, k)
    \/ JoinDrain(o, k)
    \/ ProcFail(o, k)
    \/ ProcBlock(o, k)
    \/ Drain(o, k)

EncodeStep(o) ==
    \/ EncodeStarted(o)
    \/ LameEncode(o)
    \/ JoinWorkers(o)
    \/ ConcatChunk(o)
    \/ EncodeReturn(o)
    \/ EncodeComplete(o)

(***************************************************************************)
(* The other facade operations.                                            *)
(***************************************************************************)
\* the block size of the write loops
BlockSize == 4096

\* run_async(fn): the thread of a facade method
RunAsync(o, kind, arg) ==
    /\ opPc[o] = "idle"
    /\ opKind' = [opKind EXCEPT ![o] = kind]
    /\ opPc' = [opPc EXCEPT ![o] = "start"]
    /\ opArg' = [opArg EXCEPT ![o] = arg]
    /\ UNCHANGED <<wavVars, tagVars, opResult, disk, cpus, nframes, mp3_data, events, gui,
                   progress, lame, workers, finished>>

\* the first statement of every facade method but __encode_file:
\* read_metadata_started() or write_mp3_file_started()
OpStarted(o) ==
    /\ opKind[o] \in {"read_wav", "read_mp3", "write_meta", "write_data", "copy"}
    /\ opPc[o] = "start"
    /\ Notify(o, "started")
    /\ opPc' = [opPc EXCEPT ![o] = "body"]
    /\ UNCHANGED <<wavVars, tagVars, opArg, opResult, disk, cpus, nframes, mp3_data,
                   opKind, progress, lame, workers, finished>>

\* the operation's complete notification and the value it carries
Complete(o, value) ==
    /\ Notify(o, "complete")
    /\ opResult' = [opResult EXCEPT ![o] = [set |-> TRUE, value |-> value]]
    /\ opPc' = [opPc EXCEPT ![o] = "done"]

\* an exception leaves the method: the thread ends
Raise(o) ==
    /\ opPc' = [opPc EXCEPT ![o] = "raised"]
    /\ UNCHANGED <<events, gui, opResult>>

\* a __read_metadata_from_wav_file that delivers the chapters it has whether
\* or not the extraction raised
ReadMetadataUnchecked(o) ==
    /\ opKind[o] = "read_wav" /\ opPc[o] = "body"
    /\ Complete(o, ReadChaptersFromWavFile(opArg[o].wav).chapters)
    /\ UNCHANGED <<wavVars, tagVars, opArg, disk, cpus, nframes, mp3_data, opKind,
                   progress, lame, workers, finished>>

\* __read_metadata_from_wav_file after its started notification
ReadMetadataFromWavFile(o) ==
    /\ opKind[o] = "read_wav" /\ opPc[o] = "body"
    /\ LET g == GuessPodcastInfoFromFilename(opArg[o].wav.path)
           r == ReadChaptersFromWavFile(opArg[o].wav)
       IN  IF r.ok
           THEN Complete(o, [episode_number |-> g.episode_number,
                             episode_title |-> g.episode_title,
                             chapters |-> r.chapters])
           ELSE IF r.error = "never returns"
           THEN /\ opPc' = [opPc EXCEPT ![o] = "hung"]
                /\ UNCHANGED <<events, gui, opResult>>
           ELSE Raise(o)
    /\ UNCHANGED <<wavVars, tagVars, opArg, disk, cpus, nframes, mp3_data, opKind,
                   progress, lame, workers, finished>>

\* __get_chapters_from_id3_tags raises KeyError: all_chap_tags[chapter_id] for a
\* child id of the CTOC frame that no CHAP frame has
DecodeRaises(tags) ==
    LET chaps == GetAll(tags, "CHAP")
        ctocs == GetAll(tags, "CTOC")
    IN  /\ ctocs # << >>
        /\ \E i \in 1..Len(ctocs[1].child_element_ids) :
               \A j \in 1..Len(chaps) :
                   chaps[j].element_id # ctocs[1].child_element_ids[i]

\* a __read_metadata_from_mp3_file that passes over the child ids of the CTOC
\* frame that no CHAP frame has
ReadMetadataLenient(o) ==
    /\ opKind[o] = "read_mp3" /\ opPc[o] = "body"
    /\ LET f == disk[opArg[o].path]
           has(cid) == \E j \in 1..Len(f.tags) :
                          f.tags[j].id = "CHAP" /\ f.tags[j].element_id = cid
           known == [j \in 1..Len(f.tags) |->
                        IF f.tags[j].id = "CTOC"
                        THEN [f.tags[j] EXCEPT !.child_element_ids = SelectSeq(@, has)]
                        ELSE f.tags[j]]
       IN  IF ~f.exists \/ EpisodeNumberRaises(f.tags)
           THEN Raise(o)
           ELSE Complete(o, DecodeTags(known))
    /\ UNCHANGED <<wavVars, tagVars, opArg, disk, cpus, nframes, mp3_data, opKind,
                   progress, lame, workers, finished>>

\* __read_metadata_from_mp3_file after its started notification
ReadMetadataFromMp3File(o) ==
    /\ opKind[o] = "read_mp3" /\ opPc[o] = "body"
    /\ LET f == disk[opArg[o].path]
       IN  IF ~f.exists \/ EpisodeNumberRaises(f.tags) \/ DecodeRaises(f.tags)
           THEN Raise(o)
           ELSE Complete(o, DecodeTags(f.tags))
    /\ UNCHANGED <<wavVars, tagVars, opArg, disk, cpus, nframes, mp3_data, opKind,
                   progress, lame, workers, finished>>

\* a __write_metadata_to_file that saves the tags whether or not the path
\* exists
WriteMetadataCreates(o) ==
    /\ opKind[o] = "write_meta" /\ opPc[o] = "body"
    /\ disk' = [disk EXCEPT ![opArg[o].path] =
                    [exists |-> TRUE, bytes |-> @.bytes, tags |-> GetTags(opArg[o].meta)]]
    /\ Complete(o, opArg[o].path)
    /\ UNCHANGED <<wavVars, tagVars, opArg, cpus, nframes, mp3_data, opKind, progress,
                   lame, workers, finished>>

\* __write_metadata_to_file after its started notification
WriteMetadataToFile(o) ==
    /\ opKind[o] = "write_meta" /\ opPc[o] = "body"
    /\ disk' = IF disk[opArg[o].path].exists
               THEN [disk EXCEPT ![opArg[o].path].tags = GetTags(opArg[o].meta)]
               ELSE disk
    /\ Complete(o, opArg[o].path)
    /\ UNCHANGED <<wavVars, tagVars, opArg, cpus, nframes, mp3_data, opKind, progress,
                   lame, workers, finished>>

\* the lengths len(self.mp3_data.getvalue()) may have once the tags are saved
\* into the buffer: they are set by the encoder and by mutagen
BufferSizes == {904, BlockSize, BlockSize + 904}

\* __write_mp3_data_with_metadata from its started notification to the first
\* read of the buffer: tags.save(self.mp3_data) raises when there is no buffer
WriteDataOpen(o) ==
    /\ opKind[o] = "write_data" /\ opPc[o] = "body"
    /\ IF ~mp3_data.set
       THEN /\ Raise(o)
            /\ UNCHANGED <<opArg, disk>>
       ELSE /\ \E total \in BufferSizes :
                   opArg' = [opArg EXCEPT ![o].total = total, ![o].tell = 0]
            /\ disk' = [disk EXCEPT ![opArg[o].path] =
                            [exists |-> TRUE, bytes |-> 0, tags |-> << >>]]
            /\ opPc' = [opPc EXCEPT ![o] = "write"]
            /\ UNCHANGED <<events, gui, opResult>>
    /\ UNCHANGED <<wavVars, tagVars, cpus, nframes, mp3_data, opKind, progress, lame,
                   workers, finished>>

\* the number of bytes read(4096) returns at offset tell of total bytes
ReadBlock(tell, total) == IF tell + BlockSize <= total THEN BlockSize ELSE total - tell

\* one turn of a write loop: mp3_file.write(data), write_mp3_file_progress
WriteBlock(o) ==
    /\ opKind[o] \in {"write_data", "copy"} /\ opPc[o] = "write"
    /\ opArg[o].tell < opArg[o].total
    /\ LET n == ReadBlock(opArg[o].tell, opArg[o].total)
       IN  /\ opArg' = [opArg EXCEPT ![o].tell = @ + n]
           /\ disk' = [disk EXCEPT ![opArg[o].path].bytes = @ + n]
           /\ Notify(o, "progress")
           /\ progress' = [progress EXCEPT ![o] =
                  IntOfQuotient((opArg[o].tell + n) * 100, opArg[o].total)]
    /\ UNCHANGED <<wavVars, tagVars, opResult, cpus, nframes, mp3_data, opKind, opPc,
                   lame, workers, finished>>

\* mp3_file.write(data), or tags.save(output_mp3) of the copy, raises OSError
\* (the disk is full, the medium is gone): the with statement closes the file
\* and the exception leaves the method
WriteRaises(o) ==
    /\ opKind[o] \in {"write_data", "copy"} /\ opPc[o] = "write"
    /\ opArg[o].tell < opArg[o].total \/ opKind[o] = "copy"
    /\ Raise(o)
    /\ UNCHANGED <<wavVars, tagVars, opArg, disk, cpus, nframes, mp3_data, opKind,
                   progress, lame, workers, finished>>

\* the write loop ends (read returns no data); copy saves the tags into the
\* output file; write_mp3_file_complete(path)
WriteComplete(o) ==
    /\ opKind[o] \in {"write_data", "copy"} /\ opPc[o] = "write"
    /\ opArg[o].tell >= opArg[o].total
    /\ disk' = IF opKind[o] = "copy"
               THEN [disk EXCEPT ![opArg[o].path].tags = GetTags(opArg[o].meta)]
               ELSE disk
    /\ Complete(o, opArg[o].path)
    /\ UNCHANGED <<wavVars, tagVars, opArg, cpus, nframes, mp3_data, opKind, progress,
                   lame, workers, finished>>

\* __copy_mp3_with_metadata from its started notification to the first read
\* of the input, or to write_mp3_file_complete when there is no input file
CopyOpen(o) ==
    /\ opKind[o] = "copy" /\ opPc[o] = "body"
    /\ IF disk[opArg[o].src].exists
       THEN /\ opArg' = [opArg EXCEPT ![o].total = disk[opArg[o].src].bytes,
                                      ![o].tell = 0]
            /\ disk' = [disk EXCEPT ![opArg[o].path] =
                            [exists |-> TRUE, bytes |-> 0, tags |-> << >>]]
            /\ opPc' = [opPc EXCEPT ![o] = "write"]
            /\ UNCHANGED <<events, gui, opResult>>
       ELSE /\ Complete(o, opArg[o].path)
            /\ UNCHANGED <<opArg, disk>>
    /\ UNCHANGED <<wavVars, tagVars, cpus, nframes, mp3_data, opKind, progress, lame,
                   workers, finished>>

OpStep(o) ==
    \/ OpStarted(o)
    \/ ReadMetadataFromWavFile(o)
    \/ ReadMetadataFromMp3File(o)
    \/ WriteMetadataToFile(o)
    \/ WriteDataOpen(o)
    \/ CopyOpen(o)
    \/ WriteBlock(o)
    \/ WriteRaises(o)
    \/ WriteComplete(o)

\* the MetaData that is saved
SavedMeta ==
    [podcast_title |-> PyStr("Pod"), episode_title |-> PyStr("Intro"),
     episode_number |-> PyInt(3),
     chapters |-> PyList(<<[start |-> 0, end |-> 1000, name |-> PyStr("Intro")]>>)]

\* the save of an imported WAV once its encode has ended:
\* write_mp3_data_with_metadata(meta_data, output_file)
SaveAfterImport ==
    /\ opPc[1] \in {"done", "raised"}
    /\ RunAsync(2, "write_data", [NoArg EXCEPT !.path = "b.mp3", !.meta = SavedMeta])

Next ==
    \/ EncodeWavFile(1)
    \/ SaveAfterImport
    \/ \E o \in Ops : EncodeStep(o)
    \/ \E o \in Ops : \E k \in 1..MaxCpus : WorkerStep(o, k)
    \/ \E o \in Ops : OpStarted(o) \/ WriteDataOpen(o) \/ WriteBlock(o) \/ WriteRaises(o)
    \/ \E o \in Ops : WriteComplete(o)

Spec == Init /\ [][Next]_vars

(***************************************************************************)
(* SpecFacade: any two facade calls on a fresh LibChapters, at any time.   *)
(***************************************************************************)
\* os.cpu_count() and the frame count of the WAV file that is encoded
FacadeInputs == {<<1, 2 * ChunkSize>>, <<3, 1>>}

GoodWav ==
    [path |-> <<"0", "3", " ", "-", " ", "I", "n", "t", "r", "o", ".", "w", "a", "v">>,
     magic |-> "RIFF", form |-> "WAVE", rate |-> 44100, nframes |-> 132300,
     chunks |-> <<OtherChunk("fmt ", 16), OtherChunk("data", 3 * 132300),
                  CueChunk(<<[cue_id |-> 1, position |-> 0],
                             [cue_id |-> 2, position |-> 44100]>>),
                  ListChunk, LablChunk(1, "Intro"), LablChunk(2, "Body")>>,
     truncated |-> 0, riff_short |-> 0]

\* a file whose first four bytes are not RIFF
BadMagicWav == [GoodWav EXCEPT !.magic = "RIFX"]

\* a file whose bytes 8-11 are not WAVE
BadFormWav == [GoodWav EXCEPT !.form = "AVI "]

\* tags whose CTOC frame names a child that has no CHAP frame
MissingChapTags == <<CtocFrame(<<ChapId(0)>>)>>

InitFacade ==
    /\ WavIdle
    /\ TagIdle
    /\ \E in \in FacadeInputs : cpus = in[1] /\ nframes = in[2]
    /\ \E t \in {GetTags(SavedMeta), MissingChapTags} :
           disk = [p \in Paths |->
                      IF p = "a.mp3"
                      THEN [exists |-> TRUE, bytes |-> BlockSize + 904, tags |-> t]
                      ELSE NoFile]
    /\ FacadeIdle

\* the calls of the facade's public methods
FacadeCall(o) ==
    \/ EncodeWavFile(o)
    \/ \E f \in {GoodWav, BadMagicWav, BadFormWav} :
           RunAsync(o, "read_wav", [NoArg EXCEPT !.wav = f])
    \/ \E p \in Paths : RunAsync(o, "read_mp3", [NoArg EXCEPT !.path = p])
    \/ \E p \in Paths :
           RunAsync(o, "write_meta", [NoArg EXCEPT !.path = p, !.meta = SavedMeta])
    \/ RunAsync(o, "write_data", [NoArg EXCEPT !.path = "b.mp3", !.meta = SavedMeta])
    \/ \E p \in Paths :
           RunAsync(o, "copy", [NoArg EXCEPT !.src = p, !.path = "b.mp3",
                                             !.meta = SavedMeta])

NextFacade ==
    \/ \E o \in Ops : FacadeCall(o)
    \/ \E o \in Ops : EncodeStep(o)
    \/ \E o \in Ops : \E k \in 1..MaxCpus : WorkerStep(o, k)
    \/ \E o \in Ops : OpStep(o)

SpecFacade == InitFacade /\ [][NextFacade]_vars

(***************************************************************************)
(* SpecGui: MainWindow (chapters_gui.py) with its LibChapters: File >       *)
(* Import Audio and File > Save, and the handling of the signals of        *)
(* LibChaptersListener, which the operation threads emit and the thread of *)
(* MainWindow handles in the order they were queued.  The texts of the     *)
(* widgets are not part of the state: a save passes SavedMeta.  A file     *)
(* dialog that is cancelled changes nothing.                               *)
(***************************************************************************)
\* the operation threads of one run of the window: those of one import and
\* of one save
GuiOps == 1..(MaxOps + 1)

\* MainWindow.__encode_complete
MainWindowEncodeComplete(g) == [g EXCEPT !.central = TRUE, !.menu = TRUE]

\* MainWindow.__read_metadata_started
MainWindowReadMetadataStarted(g) == [g EXCEPT !.table = FALSE]

\* MainWindow.__read_metadata_complete
MainWindowReadMetadataComplete(g) == [g EXCEPT !.table = TRUE]

\* MainWindow.__write_mp3_started
MainWindowWriteMp3Started(g) == [g EXCEPT !.menu = FALSE, !.central = FALSE]

\* MainWindow.__write_mp3_complete(path_to_mp3)
MainWindowWriteMp3Complete(g, path_to_mp3) ==
    [g EXCEPT !.menu = TRUE, !.central = TRUE,
              !.current_file = path_to_mp3, !.current_file_type = "mp3"]

InitGui ==
    /\ WavIdle
    /\ TagIdle
    /\ cpus = 1 /\ nframes = ChunkSize + 1
    /\ disk = [p \in Paths |-> NoFile]
    /\ gui = [NoGui EXCEPT !.attached = TRUE]
    /\ mp3_data = NoData
    /\ opKind = [o \in GuiOps |-> ""]
    /\ opPc = [o \in GuiOps |-> "idle"]
    /\ opArg = [o \in GuiOps |-> NoArg]
    /\ opResult = [o \in GuiOps |-> NoResult]
    /\ events = [o \in GuiOps |-> << >>]
    /\ progress = [o \in GuiOps |-> 0]
    /\ lame = [o \in GuiOps |-> NoLame]
    /\ workers = [o \in GuiOps |-> << >>]
    /\ finished = [o \in GuiOps |-> << >>]

\* MainWindow.__import_audio with a file chosen, a WAV file with no cue
\* points: __set_current_file, then read_metadata_from_wav_file(file) and
\* encode_wav_file(file), each a run_async
ImportAudio ==
    /\ gui.menu
    /\ opPc[1] = "idle" /\ opPc[2] = "idle"
    /\ gui' = [gui EXCEPT !.current_file = "a.wav", !.current_file_type = "wav"]
    /\ opKind' = [opKind EXCEPT ![1] = "read_wav", ![2] = "encode"]
    /\ opPc' = [opPc EXCEPT ![1] = "start", ![2] = "start"]
    /\ opArg' = [opArg EXCEPT ![1] =
                     [NoArg EXCEPT !.wav = [GoodWav EXCEPT !.chunks = SubSeq(@, 1, 2)]]]
    /\ UNCHANGED <<wavVars, tagVars, opResult, disk, cpus, nframes, mp3_data, events,
                   progress, lame, workers, finished>>

\* MainWindow.__save_current_file with an output file chosen: for an imported
\* WAV write_mp3_data_with_metadata(meta_data, output_file), for an MP3
\* write_metadata_to_file(meta_data, self.current_file)
SaveCurrentFile ==
    /\ gui.menu
    /\ gui.current_file # ""
    /\ \E o \in GuiOps \ {1, 2} :
           /\ opPc[o] = "idle"
           /\ \A p \in GuiOps \ {1, 2} : p < o => opPc[p] # "idle"
           /\ opKind' = [opKind EXCEPT ![o] = IF gui.current_file_type = "wav"
                                              THEN "write_data" ELSE "write_meta"]
           /\ opPc' = [opPc EXCEPT ![o] = "start"]
           /\ opArg' = [opArg EXCEPT ![o] =
                  [NoArg EXCEPT !.path = IF gui.current_file_type = "wav"
                                         THEN "b.mp3" ELSE gui.current_file,
                                !.meta = SavedMeta]]
    /\ UNCHANGED <<wavVars, tagVars, opResult, disk, cpus, nframes, mp3_data, events, gui,
                   progress, lame, workers, finished>>

\* the thread of MainWindow handles the signal at the head of its queue
HandleSignal ==
    /\ gui.queue # << >>
    /\ LET sig == Head(gui.queue)
           kind == opKind[sig.op]
           g == [gui EXCEPT !.queue = Tail(@)]
       IN  gui' =
               IF sig.kind = "progress" THEN g
               ELSE IF kind = "encode"
               THEN IF sig.kind = "complete" THEN MainWindowEncodeComplete(g) ELSE g
               ELSE IF kind = "read_wav"
               THEN IF sig.kind = "complete" THEN MainWindowReadMetadataComplete(g)
                    ELSE MainWindowReadMetadataStarted(g)
               ELSE IF sig.kind = "complete"
               THEN MainWindowWriteMp3Complete(g, opResult[sig.op].value)
               ELSE MainWindowWriteMp3Started(g)
    /\ UNCHANGED <<wavVars, tagVars, opKind, opPc, opArg, opResult, disk, cpus, nframes,
                   mp3_data, events, progress, lame, workers, finished>>

NextGui ==
    \/ ImportAudio
    \/ SaveCurrentFile
    \/ HandleSignal
    \/ \E o \in GuiOps : EncodeStep(o)
    \/ \E o \in GuiOps : \E k \in 1..MaxCpus : WorkerStep(o, k)
    \/ \E o \in GuiOps : OpStarted(o) \/ ReadMetadataFromWavFile(o)
    \/ \E o \in GuiOps : WriteDataOpen(o) \/ WriteBlock(o) \/ WriteRaises(o) \/ WriteComplete(o)

SpecGui == InitGui /\ [][NextGui]_vars

(***************************************************************************)
(* SpecTable: ChaptersTableModel (chapters_gui.py) with one chapter: the   *)
(* edits of its cells (setData with the edit role).  A text is the         *)
(* sequence of its characters.                                             *)
(***************************************************************************)
milliseconds_in_hour == 3600000

milliseconds_in_minute == 60000

milliseconds_in_second == 1000

\* the characters of a string
Chars(str) == [i \in 1..Len(str) |-> SubSeq(str, i, i)]

\* "{:0w}".format(n) for an int n >= 0: at least width digits
Pad(n, width) ==
    LET d == StrChars(n)
        z == IF Len(d) < width THEN width - Len(d) ELSE 0
    IN  [i \in 1..(z + Len(d)) |-> IF i <= z THEN "0" ELSE d[i - z]]

\* ChaptersTableModel.__format_timestamp
FormatTimestamp(timestamp_millis, include_millis) ==
    LET hours == timestamp_millis \div milliseconds_in_hour
        remainder == timestamp_millis % milliseconds_in_hour
        minutes == remainder \div milliseconds_in_minute
        seconds == (remainder % milliseconds_in_minute) \div milliseconds_in_second
        milliseconds == (remainder % milliseconds_in_minute) % milliseconds_in_second
    IN  Pad(hours, 2) \o <<":">> \o Pad(minutes, 2) \o <<":">> \o Pad(seconds, 2)
            \o (IF include_millis THEN <<".">> \o Pad(milliseconds, 3) ELSE << >>)

\* s has n digits from i on
DigitsAt(s, i, n) == i + n - 1 <= Len(s) /\ \A j \in i..(i + n - 1) : s[j] \in DigitChars

\* [0-5]?[0-9] matches the n characters of s from i on
SixtyAt(s, i, n) ==
    /\ DigitsAt(s, i, n)
    /\ n = 2 => s[i] \in {"0", "1", "2", "3", "4", "5"}

\* the lengths <<hours, minutes, seconds>> the pattern tries, in the order a
\* backtracking matcher tries them: each part as long as it can be first
PartLengths == <<<<2, 2, 2>>, <<2, 2, 1>>, <<2, 1, 2>>, <<2, 1, 1>>,
                 <<1, 2, 2>>, <<1, 2, 1>>, <<1, 1, 2>>, <<1, 1, 1>>>>

\* ([0-9]{1,2}):([0-5]?[0-9]):([0-5]?[0-9]) matches s from i on with the
\* part lengths n
PartsAt(s, i, n) ==
    /\ DigitsAt(s, i, n[1])
    /\ i + n[1] <= Len(s) /\ s[i + n[1]] = ":"
    /\ SixtyAt(s, i + n[1] + 1, n[2])
    /\ i + n[1] + 1 + n[2] <= Len(s) /\ s[i + n[1] + 1 + n[2]] = ":"
    /\ SixtyAt(s, i + n[1] + n[2] + 2, n[3])

\* ChaptersTableModel.__parse_timestamp: re.search finds the leftmost match,
\* and there the first the matcher tries; the group (\.[0-9]{1,3})? takes as
\* many digits as there are, up to 3
ParseTimestamp(timestamp) ==
    LET starts == {i \in 1..Len(timestamp) :
                      \E p \in 1..Len(PartLengths) : PartsAt(timestamp, i, PartLengths[p])}
    IN  IF starts = {} THEN PyNone
        ELSE LET i == CHOOSE k \in starts : \A j \in starts : k <= j
                 p == CHOOSE k \in 1..Len(PartLengths) :
                          /\ PartsAt(timestamp, i, PartLengths[k])
                          /\ \A j \in 1..(k - 1) : ~PartsAt(timestamp, i, PartLengths[j])
                 n == PartLengths[p]
                 e == i + n[1] + n[2] + n[3] + 2
                 hours == IntChars(SubSeq(timestamp, i, i + n[1] - 1))
                 minutes == IntChars(SubSeq(timestamp, i + n[1] + 1, i + n[1] + n[2]))
                 seconds == IntChars(SubSeq(timestamp, i + n[1] + n[2] + 2, e - 1))
                 fraction == {k \in 1..3 : e <= Len(timestamp) /\ timestamp[e] = "."
                                              /\ DigitsAt(timestamp, e + 1, k)}
                 milliseconds ==
                     IF fraction = {} THEN 0
                     ELSE IntChars(SubSeq(timestamp, e + 1,
                              e + (CHOOSE k \in fraction : \A j \in fraction : j <= k)))
             IN  PyInt((hours * milliseconds_in_hour) + (minutes * milliseconds_in_minute)
                       + (seconds * milliseconds_in_second) + milliseconds)

\* ChaptersTableModel.__set_start
SetStart(chapter, new_start) ==
    LET parsed == ParseTimestamp(new_start)
    IN  IF Truthy(parsed) THEN [chapter EXCEPT !.start = parsed.int] ELSE chapter

\* ChaptersTableModel.__set_end
SetEnd(chapter, new_end) ==
    LET parsed == ParseTimestamp(new_end)
    IN  IF Truthy(parsed) THEN [chapter EXCEPT !.end = parsed.int] ELSE chapter

\* ChaptersTableModel.__set_name
SetName(chapter, new_name) == [chapter EXCEPT !.name = new_name]

\* the times of the chapters, in milliseconds: below 100 hours
Times == {0, 1000, 59999, 3600000, 359999999}

\* the texts typed into a cell: the times as the editor shows them, as the
\* table shows them, and other texts
EditInputs ==
    {FormatTimestamp(t, TRUE) : t \in Times} \cup {FormatTimestamp(t, FALSE) : t \in Times}
    \cup {Chars(str) : str \in {"", "1:2:3", "1:23:45.5", "123:45:56", "00:75:00"}}

\* the texts typed into a name cell
NameInputs == {Chars(str) : str \in {"", "Intro"}}

InitTable ==
    /\ WavIdle
    /\ TagIdle
    /\ cpus = 1 /\ nframes = 0
    /\ disk = [p \in Paths |-> NoFile]
    /\ mp3_data = NoData
    /\ opKind = [o \in Ops |-> ""]
    /\ opPc = [o \in Ops |-> "idle"]
    /\ opArg = [o \in Ops |-> NoArg]
    /\ opResult = [o \in Ops |-> NoResult]
    /\ events = [o \in Ops |-> << >>]
    /\ progress = [o \in Ops |-> 0]
    /\ lame = [o \in Ops |-> NoLame]
    /\ workers = [o \in Ops |-> << >>]
    /\ finished = [o \in Ops |-> << >>]
    /\ \E s \in {0, 1000} :
           gui = [NoGui EXCEPT !.chapters = <<[start |-> s, end |-> 2000, name |-> << >>]>>]

\* ChaptersTableModel.setData(index, value, Qt.EditRole) for a cell of the
\* first row
SetData(column, value) ==
    /\ gui' = [gui EXCEPT
                  !.chapters[1] = CASE column = "start" -> SetStart(@, value)
                                    [] column = "end" -> SetEnd(@, value)
                                    [] column = "name" -> SetName(@, value),
                  !.edited = [column |-> column, value |-> value]]
    /\ UNCHANGED <<wavVars, tagVars, opKind, opPc, opArg, opResult, disk, cpus, nframes,
                   mp3_data, events, progress, lame, workers, finished>>

NextTable ==
    \/ \E column \in {"start", "end"} : \E value \in EditInputs : SetData(column, value)
    \/ \E value \in NameInputs : SetData("name", value)

SpecTable == InitTable /\ [][NextTable]_vars

(***************************************************************************)
(* SpecGuess: read_metadata_from_wav_file on a fresh LibChapters, for WAV  *)
(* files of many names.                                                    *)
(***************************************************************************)
MaxStemLen == 5

\* the base names without extension: every string of at most MaxStemLen
\* characters over a digit, space, hyphen and a letter
Stems == UNION {[1..n -> {"3", " ", "-", "x"}] : n \in 0..MaxStemLen}

\* the paths: with and without a directory, whose name has the pattern
GuessPaths ==
    {dir \o stem \o <<".", "w", "a", "v">> :
        dir \in {<< >>, <<"3", "-", "d", "/">>}, stem \in Stems}
    \cup {GoodWav.path}

InitGuess ==
    /\ WavIdle
    /\ TagIdle
    /\ cpus = 1 /\ nframes = 1
    /\ disk = [p \in Paths |-> NoFile]
    /\ FacadeIdle

NextGuess ==
    \/ \E p \in GuessPaths :
           RunAsync(1, "read_wav", [NoArg EXCEPT !.wav = [GoodWav EXCEPT !.path = p]])
    \/ OpStarted(1)
    \/ ReadMetadataFromWavFile(1)

SpecGuess == InitGuess /\ [][NextGuess]_vars

(***************************************************************************)
(* SpecReadWav: calls of read_metadata_from_wav_file on a fresh            *)
(* LibChapters, for WAV files and for files that are not WAV files.        *)
(***************************************************************************)
ReadWavInputs ==
    {GoodWav, BadMagicWav, BadFormWav, [BadMagicWav EXCEPT !.form = "AVI "],
     [GoodWav EXCEPT !.chunks = <<OtherChunk("fmt ", 16)>>]}

NextReadWav ==
    \/ \E o \in Ops : \E f \in ReadWavInputs :
           RunAsync(o, "read_wav", [NoArg EXCEPT !.wav = f])
    \/ \E o \in Ops : OpStarted(o)
    \/ \E o \in Ops : ReadMetadataFromWavFile(o)

SpecReadWav == InitGuess /\ [][NextReadWav]_vars

(***************************************************************************)
(* SpecMp3: one call of read_metadata_from_mp3_file or of                  *)
(* write_metadata_to_file on a fresh LibChapters, for a path that does not *)
(* exist and for an MP3 file with tags that any program may have written.  *)
(***************************************************************************)
\* the CHAP frames of a file: for chp0 none or one, for chp1 none, one, or
\* one with no TIT2 sub-frame
ChapInputs ==
    {c0 \o c1 :
        c0 \in {<< >>, <<ChapFrame(0, [start |-> 0, end |-> 1000, name |-> PyStr("Intro")])>>},
        c1 \in {<< >>, <<ChapFrame(1, [start |-> 1000, end |-> 2500, name |-> PyStr("Body")])>>,
                <<[ChapFrame(1, [start |-> 1000, end |-> 2500, name |-> PyStr("")])
                      EXCEPT !.sub_frames = << >>]>>}}

\* the CTOC frame of a file: none, or one with these child element ids
CtocInputs ==
    {<< >>} \cup
    {<<CtocFrame([i \in 1..Len(ids) |-> ChapId(ids[i])])>> :
        ids \in {<< >>, <<0>>, <<1>>, <<0, 1>>, <<1, 0>>, <<0, 2>>, <<2, 1, 0>>}}

\* the TRCK frame of a file: none, one with no text, or one with the text
\* "3", "12", "3/10" or ""
TrckInputs ==
    {<< >>, <<[id |-> "TRCK", text |-> << >>]>>} \cup
    {<<TextFrame("TRCK", t)>> : t \in {<<"3">>, <<"1", "2">>, <<"3", "/", "1", "0">>, << >>}}

TagInputs ==
    {<<TextFrame("TPE1", "Pod")>> \o trck \o ctoc \o chaps :
        trck \in TrckInputs, ctoc \in CtocInputs, chaps \in ChapInputs}

InitMp3 ==
    /\ WavIdle
    /\ TagIdle
    /\ cpus = 1 /\ nframes = 1
    /\ \E t \in TagInputs :
           disk = [p \in Paths |->
                      IF p = "a.mp3"
                      THEN [exists |-> TRUE, bytes |-> BlockSize + 904, tags |-> t]
                      ELSE NoFile]
    /\ FacadeIdle

NextMp3 ==
    \/ \E p \in Paths : RunAsync(1, "read_mp3", [NoArg EXCEPT !.path = p])
    \/ \E p \in Paths :
           RunAsync(1, "write_meta", [NoArg EXCEPT !.path = p, !.meta = SavedMeta])
    \/ OpStarted(1)
    \/ ReadMetadataFromMp3File(1)
    \/ WriteMetadataToFile(1)

SpecMp3 == InitMp3 /\ [][NextMp3]_vars

(***************************************************************************)
(* SpecWav: __read_chapters_from_wav_file on one WAV file.                 *)
(***************************************************************************)
Rates == {44100, 48000}

\* sample positions of cue points; 0 and 1 fall in the same millisecond, and
\* 88641 / 44100 is 2.01 s exactly
Positions == {0, 1, 44100, 88200, 88641}

LabelOf(cue_id) ==
    IF cue_id = 1 THEN "Intro" ELSE IF cue_id = 2 THEN "Body"
    ELSE IF cue_id = 3 THEN "Outro" ELSE "Extra"

\* the records of a cue chunk: cue ids 1..n in file order, at distinct
\* positions in any order
CueLists ==
    UNION {{[i \in 1..n |-> [cue_id |-> i, position |-> ps[i]]] :
               ps \in {q \in [1..n -> Positions] :
                          \A i, j \in 1..n : i # j => q[i] # q[j]}}
           : n \in 0..MaxCues}

\* the cue ids that have a labl chunk: none, all, the first only, or all and
\* one more that no cue point has
LabelSets(n) ==
    {{}, 1..n, 1..(IF n = 0 THEN 0 ELSE 1), 1..(n + 1)}

LablChunks(ids) ==
    LET n == Cardinality(ids) IN [i \in 1..n |-> LablChunk(i, LabelOf(i))]

\* the chunks after "fmt " and "data": the cue chunk before or after the list
WavBodies ==
    UNION {UNION {{<<CueChunk(cl)>> \o <<ListChunk>> \o LablChunks(ids),
                   <<ListChunk>> \o LablChunks(ids) \o <<CueChunk(cl)>>}
                  : ids \in LabelSets(Len(cl))}
           : cl \in CueLists}

WavInputs ==
    {[path |-> GoodWav.path, magic |-> "RIFF", form |-> "WAVE", rate |-> r,
      nframes |-> GoodWav.nframes,
      chunks |-> <<OtherChunk("fmt ", 16), OtherChunk("data", 3 * GoodWav.nframes)>> \o b,
      truncated |-> 0, riff_short |-> 0]
        : r \in Rates, b \in WavBodies}
    \cup {BadMagicWav, [GoodWav EXCEPT !.form = "AVI "],
          [GoodWav EXCEPT !.chunks = <<OtherChunk("fmt ", 16)>>]}

NoEncode == cpus = 1 /\ nframes = 0 /\ disk = [p \in Paths |-> NoFile]

InitWav ==
    /\ wavIn \in WavInputs
    /\ wavOut = NotRead
    /\ TagIdle
    /\ NoEncode
    /\ FacadeIdle

\* a call of __read_chapters_from_wav_file(wavIn)
ReadChapters ==
    /\ ~wavOut.done
    /\ LET r == ReadChaptersFromWavFile(wavIn)
       IN  wavOut' = [done |-> r.error # "never returns", ok |-> r.ok, error |-> r.error,
                      chapters |-> r.chapters]
    /\ UNCHANGED <<wavIn, tagVars, cpus, nframes, mp3_data, opKind, opPc, opArg,
                   opResult, disk, events, gui, progress, lame, workers, finished>>

NextWav == ReadChapters

SpecWav == InitWav /\ [][NextWav]_vars

(***************************************************************************)
(* SpecRepeat: __read_chapters_from_wav_file on WAV files that declare a   *)
(* cue id, or the label of a cue id, more than once.                       *)
(***************************************************************************)
\* the most labl chunks of a file
MaxLabels == 2

\* the records of the cue chunk: up to MaxCues, of the cue ids 1 and 2
RepeatCueLists ==
    UNION {[1..n -> [cue_id : {1, 2}, position : {0, 44100}]] : n \in 1..MaxCues}

\* the labl chunks: up to MaxLabels, for the cue ids of the records, each
\* with another label
RepeatLablChunks(cl) ==
    UNION {{[i \in 1..n |-> LablChunk(ids[i], LabelOf(i))] :
               ids \in [1..n -> {cl[k].cue_id : k \in 1..Len(cl)}]}
           : n \in 0..MaxLabels}

RepeatInputs ==
    UNION {UNION {{[GoodWav EXCEPT !.chunks = SubSeq(@, 1, 2) \o <<CueChunk(cl), ListChunk>> \o ll],
                   [GoodWav EXCEPT !.chunks = SubSeq(@, 1, 2) \o <<ListChunk>> \o ll
                                                 \o <<CueChunk(cl)>>]}
                  : ll \in RepeatLablChunks(cl)}
           : cl \in RepeatCueLists}

InitRepeat ==
    /\ wavIn \in RepeatInputs
    /\ wavOut = NotRead
    /\ TagIdle
    /\ NoEncode
    /\ FacadeIdle

SpecRepeat == InitRepeat /\ [][NextWav]_vars

(***************************************************************************)
(* SpecSkip: __read_chapters_from_wav_file on WAV files with chunks it     *)
(* does not know before, between and after the cue chunk and the list.     *)
(***************************************************************************)
\* the chunks the walk does not know at one place of the file: none, one of
\* odd size or one of even size
UnknownChunks == {<< >>, <<OtherChunk("junk", 7)>>, <<OtherChunk("bext", 10)>>}

\* the records of the cue chunk: at most two, at distinct positions
SkipCueLists ==
    UNION {{[i \in 1..n |-> [cue_id |-> i, position |-> ps[i]]] :
               ps \in {q \in [1..n -> {0, 44100}] :
                          \A i, j \in 1..n : i # j => q[i] # q[j]}}
           : n \in 0..2}

SkipBodies ==
    UNION {UNION {{u[1] \o <<CueChunk(cl)>> \o u[2] \o <<ListChunk>> \o LablChunks(ids)
                       \o u[3],
                   u[1] \o <<ListChunk>> \o LablChunks(ids) \o u[2] \o <<CueChunk(cl)>>
                       \o u[3]}
                  : ids \in LabelSets(Len(cl)),
                    u \in UnknownChunks \X UnknownChunks \X UnknownChunks}
           : cl \in SkipCueLists}

SkipInputs ==
    {[GoodWav EXCEPT !.chunks = <<OtherChunk("fmt ", 16), OtherChunk("data", 3 * GoodWav.nframes)>> \o b]
        : b \in SkipBodies}

InitSkip ==
    /\ wavIn \in SkipInputs
    /\ wavOut = NotRead
    /\ TagIdle
    /\ NoEncode
    /\ FacadeIdle

SpecSkip == InitSkip /\ [][NextWav]_vars


(***************************************************************************)
(* SpecDamaged: __read_chapters_from_wav_file on damaged WAV files: cut    *)
(* short at any byte after the data chunk, or holding a chunk whose header *)
(* declares a size that is not the size of its data.                       *)
(***************************************************************************)
\* GoodWav cut short, with the RIFF size of the whole file or of what is left
CutInputs ==
    UNION {{[GoodWav EXCEPT !.truncated = t], [GoodWav EXCEPT !.truncated = t, !.riff_short = t]}
           : t \in 1..(FileSize(GoodWav.chunks) - ChunkStart(GoodWav.chunks, 3))}

\* GoodWav with one more chunk, whose header declares a size, a signed int,
\* that is not the size of its data: a size past the end of the file, one
\* that leads back to the chunk itself or to an earlier chunk, and one that
\* leads back past the start of the file
SizedInputs ==
    {[GoodWav EXCEPT !.chunks = @ \o <<SizedChunk("junk", d[1], d[2])>>]
        : d \in {<<1000, 4>>, <<5, 4>>, <<0 - 8, 0>>, <<0 - 44, 0>>, <<0 - 1000000, 0>>}}
    \cup {[GoodWav EXCEPT !.chunks = SubSeq(@, 1, 2) \o <<SizedChunk("junk", d[1], d[2])>>
                                          \o SubSeq(@, 3, Len(@))]
              : d \in {<<1000, 4>>, <<0 - 8, 0>>, <<0 - 1000000, 0>>}}

InitDamaged ==
    /\ wavIn \in CutInputs \cup SizedInputs \cup {GoodWav}
    /\ wavOut = NotRead
    /\ TagIdle
    /\ NoEncode
    /\ FacadeIdle

SpecDamaged == InitDamaged /\ [][NextWav]_vars

(***************************************************************************)
(* SpecTags: __get_tags on one MetaData, then the four                     *)
(* __get_*_from_id3_tags on the tags it built.                             *)
(***************************************************************************)
ChapterInputs ==
    {[start |-> 0, end |-> 1000, name |-> PyStr("Intro")],
     [start |-> 1000, end |-> 2000, name |-> PyStr("")],
     [start |-> 1000, end |-> 2500, name |-> PyStr("Body")]}

ChapterLists == UNION {[1..n -> ChapterInputs] : n \in 0..MaxChapters}

MetaInputs ==
    [podcast_title  : {PyNone, PyStr(""), PyStr("Pod")},
     episode_title  : {PyNone, PyStr(""), PyStr("Ep")},
     episode_number : {PyNone, PyInt(0), PyInt(3), PyInt(12)},
     chapters       : {PyNone} \cup {PyList(l) : l \in ChapterLists}]

InitTags ==
    /\ WavIdle
    /\ tagIn \in MetaInputs
    /\ tagTags = NoTags
    /\ tagOut = NotDecoded
    /\ NoEncode
    /\ FacadeIdle

\* a call of __get_tags(tagIn)
EncodeTags ==
    /\ ~tagTags.built
    /\ tagTags' = [built |-> TRUE, frames |-> GetTags(tagIn)]
    /\ UNCHANGED <<wavVars, tagIn, tagOut, cpus, nframes, mp3_data, opKind, opPc, opArg,
                   opResult, disk, events, gui, progress, lame, workers, finished>>

\* the MetaData built from the tags, as __read_metadata_from_mp3_file builds it
ReadTags ==
    /\ tagTags.built /\ ~tagOut.done
    /\ tagOut' = [done |-> TRUE, metadata |-> DecodeTags(tagTags.frames)]
    /\ UNCHANGED <<wavVars, tagIn, tagTags, cpus, nframes, mp3_data, opKind, opPc, opArg,
                   opResult, disk, events, gui, progress, lame, workers, finished>>

NextTags == EncodeTags \/ ReadTags

SpecTags == InitTags /\ [][NextTags]_vars

(***************************************************************************)
(* Properties.                                                             *)
(***************************************************************************)
\* Lame.encode of operation o has returned
EncodeReturned(o) == opKind[o] = "encode" /\ opPc[o] \in {"complete", "done"}

\* the worker threads of o that ended by an exception, or whose encoder
\* process exited non-zero
FailedWorkers(o) ==
    {k \in 1..Len(workers[o]) :
        workers[o][k].pc = "raised" \/ workers[o][k].proc = "failed"}

\* C1: once Lame.encode has returned, the stream it returned holds the
\* workers' output in worker-index order, whatever the order in which the
\* worker threads ended, and all the output of every worker that ended
\* normally.
C1_ChunkIndexOrder ==
    EncodeReturned(1) =>
        /\ mp3_data.set
        /\ \A i, j \in 1..Len(mp3_data.data) :
               i < j => mp3_data.data[i].w < mp3_data.data[j].w
        /\ \A k \in 1..Len(workers[1]) :
               workers[1][k].pc = "done" =>
                   \A i \in 1..Len(lame[1].output_chunks[k]) :
                       \E j \in 1..Len(mp3_data.data) :
                           mp3_data.data[j] = lame[1].output_chunks[k][i]

\* C1 witness: the two workers of an encode ended in reverse order, each
\* with encoded output, and Lame.encode has returned both outputs.
C1_ReversedCompletion ==
    /\ EncodeReturned(1)
    /\ finished[1] = <<2, 1>>
    /\ Len(mp3_data.data) = 2

\* the number of samples of the file in the range of worker k of operation o
RangeLength(o, k) ==
    LET first == workers[o][k].first
        last  == first + workers[o][k].total
    IN  IF first >= nframes THEN 0
        ELSE IF last <= nframes THEN last - first ELSE nframes - first

\* C2: when a worker has closed its encoder's input stream, the samples it
\* wrote to the stream are those of its assigned range.
C2_FedWholeRange ==
    \A o \in Ops : \A k \in 1..Len(workers[o]) :
        workers[o][k].pc \in {"join_drain", "done"} =>
            workers[o][k].fed = RangeLength(o, k)

\* C3: once Lame.encode has placed the cursors, all W workers exist and
\* worker k is at offset k * share, which is not past the end of the file.
C3_AllWorkersStarted ==
    (opKind[1] = "encode" /\ opPc[1] \notin {"idle", "start", "encode"}) =>
        /\ Len(workers[1]) = cpus
        /\ \A k \in 1..Len(workers[1]) :
               /\ workers[1][k].first = (k - 1) * lame[1].share
               /\ workers[1][k].first <= nframes

\* C4: an encode with a failed worker does not return a stream, does not set
\* mp3_data and does not emit encode_complete.
C4_FailureFailsEncode ==
    \A o \in Ops :
        FailedWorkers(o) # {} =>
            /\ ~EncodeReturned(o)
            /\ ~mp3_data.set
            /\ \A i \in 1..Len(events[o]) : events[o][i] # "complete"

\* C5: an operation whose thread has ended by an exception has given its
\* listener a terminal notification.
C5_TerminalNotification ==
    \A o \in Ops :
        opPc[o] = "raised" =>
            /\ events[o] # << >>
            /\ events[o][Len(events[o])] \in {"complete", "failed"}

\* C6: the notifications of an operation are, in order, started, then
\* progress notifications, then complete.
C6_NotificationOrder ==
    \A o \in Ops :
        events[o] \in {<< >>, <<"started">>, <<"started", "progress">>,
                       <<"started", "complete">>,
                       <<"started", "progress", "complete">>}

\* C6 witness: an encode whose two worker threads both delivered progress
\* has completed, and so has the write that followed it.
C6_ParallelEncodeCompleted ==
    /\ Len(workers[1]) >= 2
    /\ \A k \in 1..Len(workers[1]) : workers[1][k].pc = "done"
    /\ events[1] = <<"started", "progress", "complete">>
    /\ events[2] = <<"started", "progress", "complete">>

\* the encodes that are running
RunningEncodes ==
    {o \in Ops : opKind[o] = "encode" /\ opPc[o] \notin {"idle", "done", "raised"}}

\* C7: at most one encode runs at any time.
C7_OneEncodeAtATime == Cardinality(RunningEncodes) <= 1

\* floor(samples * 1000 / rate)
ExactMillis(rate, samples) == (samples * 1000) \div rate

\* the records of the cue chunk of WAV file f
CuePoints(f) ==
    f.chunks[CHOOSE i \in 1..Len(f.chunks) : f.chunks[i].id = "cue "].points

\* the label of cue point cue_id in f: that of its labl chunk, or ""
LabelFor(f, cue_id) ==
    IF \E i \in 1..Len(f.chunks) : f.chunks[i].id = "labl" /\ f.chunks[i].cue_id = cue_id
    THEN f.chunks[CHOOSE i \in 1..Len(f.chunks) :
                      f.chunks[i].id = "labl" /\ f.chunks[i].cue_id = cue_id].label
    ELSE ""

\* the place of point k among the points in position order
Rank(points, k) ==
    1 + Cardinality({j \in 1..Len(points) : points[j].position < points[k].position})

\* C8: the chapters read from a WAV file are its cue points in position
\* order: chapter i starts at floor(p_i * 1000 / r), ends where the next one
\* starts (the last one at floor(total_samples * 1000 / r)) and is named by
\* the label of point i, or "".
C8_ChaptersFromCuePoints ==
    (wavOut.done /\ wavOut.ok) =>
        LET points == CuePoints(wavIn)
            n == Len(points)
        IN  /\ Len(wavOut.chapters) = n
            /\ \A k \in 1..n :
                   LET i == Rank(points, k)
                       c == wavOut.chapters[i]
                   IN  /\ c.start = ExactMillis(wavIn.rate, points[k].position)
                       /\ c.end = IF i < n THEN wavOut.chapters[i + 1].start
                                  ELSE ExactMillis(wavIn.rate, wavIn.nframes)
                       /\ c.name = LabelFor(wavIn, points[k].cue_id)

\* C9 as stated: the start times of the chapters read from a WAV file whose
\* cue points are at distinct positions are strictly increasing.
C9_StartsStrictlyIncreasing ==
    (wavOut.done /\ wavOut.ok) =>
        \A i \in 1..(Len(wavOut.chapters) - 1) :
            wavOut.chapters[i].start < wavOut.chapters[i + 1].start

\* C9: the start times of the chapters read from a WAV file whose cue points
\* are at distinct positions never decrease.
C9_StartsNonDecreasing ==
    (wavOut.done /\ wavOut.ok) =>
        \A i \in 1..(Len(wavOut.chapters) - 1) :
            wavOut.chapters[i].start <= wavOut.chapters[i + 1].start

\* C9 witness: the file declares the later cue point first, and the two
\* chapters read from it start in the same millisecond.
C9_SameMillisecond ==
    /\ wavOut.done /\ wavOut.ok
    /\ Len(wavOut.chapters) = 2
    /\ CuePoints(wavIn)[1].position > CuePoints(wavIn)[2].position
    /\ wavOut.chapters[1].start = wavOut.chapters[2].start

\* C10: the MetaData decoded from the tags __get_tags built from a MetaData
\* is equal to it.
C10_RoundTrip == tagOut.done => tagOut.metadata = tagIn

\* WAV file f without the chunks the walk does not know
StripUnknown(f) ==
    [f EXCEPT !.chunks =
        SelectSeq(@, LAMBDA c : c.id \in {"fmt ", "data", "cue ", "LIST", "labl"})]

\* C11: the chapters read from a WAV file with unknown chunks, of odd or
\* even size, before, between and after the cue chunk and the list are
\* those read from the same file without the unknown chunks.
C11_SkipKeepsSync ==
    wavOut.done =>
        LET r == ReadChaptersFromWavFile(StripUnknown(wavIn))
        IN  /\ wavOut.ok = r.ok
            /\ wavOut.error = r.error
            /\ wavOut.chapters = r.chapters

\* C11 witness: two labelled chapters were read from a file that holds an
\* unknown chunk of odd size and one of even size.
C11_SkippedOddAndEven ==
    /\ wavOut.done /\ wavOut.ok
    /\ Len(wavOut.chapters) = 2
    /\ wavOut.chapters[2].name # ""
    /\ \E i, j \in 1..Len(wavIn.chunks) :
           /\ wavIn.chunks[i].id = "junk" /\ wavIn.chunks[j].id = "bext"
           /\ i < j

\* C12: a read of a WAV file whose first four bytes are not RIFF or whose
\* bytes 8-11 are not WAVE raises before the chunk loop, and
\* read_metadata_complete delivers no chapter list for it.
C12_NotWavDeliversNothing ==
    \A o \in Ops :
        (opKind[o] = "read_wav" /\ RiffRaises(opArg[o].wav)) =>
            /\ opPc[o] # "done"
            /\ ~opResult[o].set
            /\ \A i \in 1..Len(events[o]) : events[o][i] # "complete"
            /\ ReadChaptersFromWavFile(opArg[o].wav).error \in {"wave.Error", "ValueError"}

\* C12 witness: the reads of a file without the RIFF magic and of a file
\* without the WAVE form type have both raised.
C12_BothReadsRaised ==
    \E o, q \in Ops :
        /\ opKind[o] = "read_wav" /\ opArg[o].wav.magic # "RIFF" /\ opPc[o] = "raised"
        /\ opKind[q] = "read_wav" /\ opArg[q].wav.form # "WAVE" /\ opPc[q] = "raised"

\* \s of the pattern ^\s*(\d{1,3})\s*-\s*(.*)$
Whitespace == {" ", "\t"}

\* the whole of s matches ^\s*(\d{1,3})\s*-\s*(.*)$
WholeNameMatches(s) ==
    LET i == SkipRun(s, 1, Whitespace)
    IN  /\ \E d \in 1..3 :
               /\ i + d - 1 <= Len(s)
               /\ \A j \in i..(i + d - 1) : s[j] \in DigitChars
               /\ LET h == SkipRun(s, i + d, Whitespace) IN h <= Len(s) /\ s[h] = "-"
        /\ \A j \in 1..Len(s) : s[j] # "\n"

\* C13: read_metadata_complete carries an episode number and an episode
\* title only when the whole base name, without directory and extension,
\* is optional whitespace, 1 to 3 digits, optional whitespace, a hyphen,
\* optional whitespace and the title; for every other name both are absent.
C13_GuessOnlyFromWholeName ==
    \A o \in Ops :
        (opKind[o] = "read_wav" /\ opPc[o] = "done") =>
            LET stem == SplitextRoot(Basename(opArg[o].wav.path))
                v == opResult[o].value
            IN  ~WholeNameMatches(stem) =>
                    /\ v.episode_number.type = "none"
                    /\ v.episode_title.type = "none"

\* C14: every write (of the encoded buffer, of the tags in place, of a copy
\* with tags) that has completed has emitted write progress, the last value
\* 100, before write_mp3_file_complete, which carries the output path.
C14_WriteProgressThenComplete ==
    \A o \in Ops :
        (opKind[o] \in {"write_meta", "write_data", "copy"} /\ opPc[o] = "done") =>
            /\ events[o] = <<"started", "progress", "complete">>
            /\ progress[o] = 100
            /\ opResult[o].set /\ opResult[o].value = opArg[o].path

\* C15: after a write of the encoded buffer or of a copy has failed once its
\* output file was opened, the output path holds no file or a complete
\* file, with its tags.
C15_NoTruncatedOutput ==
    \A o \in Ops :
        (opKind[o] \in {"write_data", "copy"} /\ opPc[o] = "raised" /\ opArg[o].total > 0) =>
            LET f == disk[opArg[o].path]
            IN  \/ ~f.exists
                \/ /\ f.bytes = opArg[o].total
                   /\ opKind[o] = "copy" => f.tags = GetTags(opArg[o].meta)

\* C16: no encode reaches a state in which a worker is blocked in
\* process.stdin.write on a full input pipe, or in the join of its drain
\* thread, while its encoder process is blocked on a stream nobody reads.
C16_NoFeederBlockedOnEncoder ==
    \A o \in Ops : \A k \in 1..Len(workers[o]) :
        LET w == workers[o][k]
        IN  w.proc = "blocked" =>
                /\ ~(w.pc = "loop" /\ w.samples_left > 0 /\ ~StdinAccepts(w))
                /\ w.pc # "join_drain"

\* the entries of the progress table of encode o never decrease
TableNonDecreasing(o) ==
    Len(lame'[o].progress_dict) = Len(lame[o].progress_dict) =>
        \A k \in 1..Len(lame[o].progress_dict) :
            lame'[o].progress_dict[k] >= lame[o].progress_dict[k]

C18_ProgressIsShareFed ==
    \A o \in Ops : \A k \in 1..Len(workers[o]) :
        LET w == workers[o][k]
            p == lame[o].progress_dict[k]
        IN  w.pc = "upd_read" =>
                /\ p = 100 => w.fed = w.total
                /\ w.total > 0 => p = (w.fed * 100) \div w.total

\* worker k of encode o computes its aggregate in this step
ReadsTable(o, k) ==
    /\ k \in 1..Len(workers[o]) /\ workers[o][k].pc = "upd_read"
    /\ workers'[o][k].pc = "upd_notify"

\* worker k of encode o passes its aggregate to the wrapped listener in this step
Reports(o, k) ==
    /\ k \in 1..Len(workers[o]) /\ workers[o][k].pc = "upd_notify"
    /\ workers'[o][k].pc # "upd_notify"

\* C19: every aggregate passed to the wrapped listener is floor(sum of the
\* table / number of entries) of the table as it was at the worker's read,
\* which follows the worker's own write; it lies in 0..100 and the table
\* holds exactly one entry per worker.
C19_AggregateIsMeanOfTable ==
    [][\A o \in Ops : \A k \in 1..MaxCpus :
          /\ ReadsTable(o, k) =>
                /\ Len(lame[o].progress_dict) = cpus
                /\ Len(lame[o].progress_dict) = Len(workers[o])
                /\ lame[o].progress_dict[k] = workers[o][k].pending
                /\ workers'[o][k].avg =
                       Sum(lame[o].progress_dict, 1) \div Len(lame[o].progress_dict)
                /\ workers'[o][k].avg \in 0..100
          /\ Reports(o, k) => progress'[o] = workers[o][k].avg]_vars

\* C19 witness: the listener of an encode on two workers has received the
\* mean of a finished worker's 100 and of the other worker's percentage,
\* which is neither 0 nor 100.
C19_MeanOfTwoReported ==
    \E o \in Ops :
        /\ Len(workers[o]) = 2
        /\ lame[o].progress_dict[1] \in 1..99
        /\ lame[o].progress_dict[2] = 100
        /\ workers[o][1].pc = "loop" /\ workers[o][1].last_progress = lame[o].progress_dict[1]
        /\ workers[o][2].pc # "upd_read"
        /\ progress[o] = (lame[o].progress_dict[1] + 100) \div 2

\* the workers of encode o that are inside AggregateListener.encode_update
InEncodeUpdate(o) ==
    {k \in 1..Len(workers[o]) : workers[o][k].pc \in {"upd_read", "upd_notify"}}

\* C20: no two workers of an encode are inside AggregateListener.encode_update
\* at the same time.
C20_OneWorkerInEncodeUpdate ==
    \A o \in Ops : Cardinality(InEncodeUpdate(o)) <= 1

\* C21: when the concatenation loop of Lame.encode has read output_chunks[k],
\* the drain thread of worker k has ended, so nothing is written to that
\* buffer after the read, however the thread of worker k has ended.
C21_ReadAfterDrainEnded ==
    \A o \in Ops :
        (opKind[o] = "encode" /\ opPc[o] \in {"concat", "complete", "done"}) =>
            \A k \in 1..Len(workers[o]) :
                k < lame[o].idx => workers[o][k].drain = "done"

\* the stream of f ends inside the 8 bytes of a chunk header
EndsMidHeader(f) ==
    \E i \in 1..Len(f.chunks) :
        /\ ChunkStart(f.chunks, i) < StreamLength(f)
        /\ StreamLength(f) < ChunkStart(f.chunks, i) + 8

\* the size a chunk header of f declares carries the position past the total
\* size the RIFF header declares
SizePastContainer(f) ==
    \E i \in 1..Len(f.chunks) :
        /\ f.chunks[i].id # "LIST"
        /\ ChunkStart(f.chunks, i) + 8 <= StreamLength(f)
        /\ ChunkStart(f.chunks, i) + 8 <= DeclaredSize(f)
        /\ ChunkStart(f.chunks, i) + 8 + f.chunks[i].size > DeclaredSize(f)

\* C22: the read of a file whose stream ends inside a chunk header, or in
\* which a chunk declares a size that passes the declared total size, fails
\* with an error and returns no chapters.
C22_DamagedFileFails ==
    (wavOut.done /\ (EndsMidHeader(wavIn) \/ SizePastContainer(wavIn))) =>
        /\ ~wavOut.ok
        /\ wavOut.chapters = << >>

\* C30: the chunk walk ends, by the end of the loop or by an error, for
\* every file, whatever sizes its chunk headers declare.
C30_WalkTerminates == wavOut.error # "never returns"

\* the CTOC frames and the CHAP frames of the file at path p
CtocFrames(p) == GetAll(disk[p].tags, "CTOC")

ChapFrames(p) == GetAll(disk[p].tags, "CHAP")

\* no CHAP frame of the file at path p has the element id cid
NoChapFor(p, cid) == \A j \in 1..Len(ChapFrames(p)) : ChapFrames(p)[j].element_id # cid

\* C23: a read of an MP3 file with a CTOC frame that completes delivers one
\* chapter per child id of the CTOC frame, in the order of the child ids,
\* each with the times of the CHAP frame of that id; a read that raises
\* though the file exists and its TRCK text is an integer has a child id
\* with no CHAP frame.  No read delivers fewer chapters than child ids.
C23_OneChapterPerChildId ==
    \A o \in Ops :
        opKind[o] = "read_mp3" /\ CtocFrames(opArg[o].path) # << >> =>
            LET p == opArg[o].path
                ids == CtocFrames(p)[1].child_element_ids
            IN  /\ opPc[o] = "done" =>
                       LET chapters == opResult[o].value.chapters.list
                       IN  /\ Len(chapters) = Len(ids)
                           /\ \A i \in 1..Len(ids) :
                                  \E j \in 1..Len(ChapFrames(p)) :
                                      /\ ChapFrames(p)[j].element_id = ids[i]
                                      /\ ChapFrames(p)[j].start_time = chapters[i].start
                                      /\ ChapFrames(p)[j].end_time = chapters[i].end
                /\ opPc[o] = "raised" /\ ~EpisodeNumberRaises(disk[p].tags) =>
                       \E i \in 1..Len(ids) : NoChapFor(p, ids[i])

\* a read delivered the two chapters of a CTOC frame that names chp1 before
\* chp0
C23_DeliveredInCtocOrder ==
    \E o \in Ops :
        /\ opKind[o] = "read_mp3" /\ opPc[o] = "done"
        /\ CtocFrames(opArg[o].path) # << >>
        /\ CtocFrames(opArg[o].path)[1].child_element_ids = <<ChapId(1), ChapId(0)>>
        /\ Len(opResult[o].value.chapters.list) = 2

\* C24: the read of an MP3 file whose TRCK text is not a decimal integer, and
\* whose CTOC child ids all have their CHAP frames, completes: it notifies
\* read_metadata_complete, with no episode number and with the podcast
\* title of the file.
C24_BadTrackNumberIsAbsent ==
    \A o \in Ops :
        (/\ opKind[o] = "read_mp3" /\ opPc[o] \in {"done", "raised"}
         /\ disk[opArg[o].path].exists
         /\ EpisodeNumberRaises(disk[opArg[o].path].tags)
         /\ ~DecodeRaises(disk[opArg[o].path].tags)) =>
            /\ opPc[o] = "done"
            /\ events[o] = <<"started", "complete">>
            /\ opResult[o].value.episode_number = PyNone
            /\ opResult[o].value.podcast_title = PyStr("Pod")

\* C27: __write_metadata_to_file for a path that does not exist leaves every
\* file as it is and ends with the notifications started and complete, the
\* latter with the path.
C27_MissingPathChangesNothing ==
    [][\A o \in Ops :
          (/\ opKind[o] = "write_meta" /\ opPc[o] = "body" /\ opPc'[o] # "body"
           /\ ~disk[opArg[o].path].exists) =>
              /\ disk' = disk
              /\ opPc'[o] = "done"
              /\ events'[o] = <<"started", "complete">>
              /\ opResult'[o] = [set |-> TRUE, value |-> opArg[o].path]]_vars

\* a write of the metadata to a path that does not exist has completed
C27_WroteToMissingPath ==
    \E o \in Ops :
        /\ opKind[o] = "write_meta" /\ opPc[o] = "done"
        /\ ~disk[opArg[o].path].exists
        /\ events[o] = <<"started", "complete">>

\* the chapters of the MetaData m: none when the field is None
ChaptersOf(m) == IF m.chapters.type = "list" THEN m.chapters.list ELSE << >>

\* C25: the tags __get_tags builds for a MetaData with n >= 1 chapters hold
\* one CTOC frame, top-level and ordered, with the child ids chp0..chp{n-1}
\* in this order, and n CHAP frames, the one with element id chp{i} with the
\* start and end of chapter i and one TIT2 sub-frame with its name; the tags
\* for a MetaData with no chapters hold no CTOC and no CHAP frame.
C25_OneChapFramePerChapter ==
    tagTags.built =>
        LET chapters == ChaptersOf(tagIn)
            n == Len(chapters)
            ctocs == SelectSeq(tagTags.frames, LAMBDA f : f.id = "CTOC")
            chaps == SelectSeq(tagTags.frames, LAMBDA f : f.id = "CHAP")
        IN  IF n = 0 THEN ctocs = << >> /\ chaps = << >>
            ELSE /\ Len(ctocs) = 1
                 /\ ctocs[1].flags = {"TOP_LEVEL", "ORDERED"}
                 /\ ctocs[1].child_element_ids = [i \in 1..n |-> <<"chp", i - 1>>]
                 /\ Len(chaps) = n
                 /\ \A i \in 1..n :
                        /\ Cardinality({j \in 1..n : chaps[j].element_id = <<"chp", i - 1>>}) = 1
                        /\ \E j \in 1..n :
                               /\ chaps[j].element_id = <<"chp", i - 1>>
                               /\ chaps[j].start_time = chapters[i].start
                               /\ chaps[j].end_time = chapters[i].end
                               /\ chaps[j].sub_frames =
                                      <<[id |-> "TIT2", text |-> <<chapters[i].name.str>>]>>

\* tags were built for a MetaData of two chapters, the second with a name
C25_TwoChaptersEncoded ==
    /\ tagTags.built
    /\ Len(ChaptersOf(tagIn)) = 2
    /\ ChaptersOf(tagIn)[2].name = PyStr("Body")
    /\ Len(SelectSeq(tagTags.frames, LAMBDA f : f.id = "CHAP")) = 2

\* C26: the tags __get_tags builds hold a TPE1, a TIT2 and a TRCK frame
\* exactly for the fields of the MetaData that are not None, the empty
\* string and the episode number 0 included.
C26_FramesForPresentFields ==
    tagTags.built =>
        /\ HasFrame(tagTags.frames, "TPE1") <=> tagIn.podcast_title # PyNone
        /\ HasFrame(tagTags.frames, "TIT2") <=> tagIn.episode_title # PyNone
        /\ HasFrame(tagTags.frames, "TRCK") <=> tagIn.episode_number # PyNone

\* the cue ids the cue chunk of f declares
CueIds(f) == {CuePoints(f)[k].cue_id : k \in 1..Len(CuePoints(f))}

\* the position of the last record of the cue chunk of f with the id cue_id
LastPosition(f, cue_id) ==
    LET ks == {k \in 1..Len(CuePoints(f)) : CuePoints(f)[k].cue_id = cue_id}
    IN  CuePoints(f)[CHOOSE k \in ks : \A j \in ks : j <= k].position

\* the label of the last labl chunk of f with the id cue_id, or ""
LastLabel(f, cue_id) ==
    LET ks == {k \in 1..Len(f.chunks) :
                  f.chunks[k].id = "labl" /\ f.chunks[k].cue_id = cue_id}
    IN  IF ks = {} THEN ""
        ELSE f.chunks[CHOOSE k \in ks : \A j \in ks : j <= k].label

\* C28: the read of a WAV file that declares cue ids, or their labels, more
\* than once succeeds with one chapter per distinct cue id, which starts at
\* the position of the last cue record of that id and is named by the last
\* labl chunk of that id; the chapters are as many as the distinct cue ids.
C28_LastWriteWins ==
    wavOut.done =>
        /\ wavOut.ok
        /\ Len(wavOut.chapters) = Cardinality(CueIds(wavIn))
        /\ \A id \in CueIds(wavIn) :
               Cardinality({i \in 1..Len(wavOut.chapters) :
                               /\ wavOut.chapters[i].start =
                                      ExactMillis(wavIn.rate, LastPosition(wavIn, id))
                               /\ wavOut.chapters[i].name = LastLabel(wavIn, id)})
               = Cardinality({other \in CueIds(wavIn) :
                                 /\ LastPosition(wavIn, other) = LastPosition(wavIn, id)
                                 /\ LastLabel(wavIn, other) = LastLabel(wavIn, id)})

\* a file was read that declares cue id 1 at two positions and with two
\* labels, and one chapter was read from it
C28_RepeatedIdRead ==
    /\ wavOut.done /\ wavOut.ok
    /\ CueIds(wavIn) = {1}
    /\ \E j, k \in 1..Len(CuePoints(wavIn)) :
           j < k /\ CuePoints(wavIn)[j].position = 44100 /\ CuePoints(wavIn)[k].position = 0
    /\ \E j, k \in 1..Len(wavIn.chunks) :
           /\ j < k
           /\ wavIn.chunks[j].id = "labl" /\ wavIn.chunks[j].label = "Intro"
           /\ wavIn.chunks[k].id = "labl" /\ wavIn.chunks[k].label = "Body"
    /\ wavOut.chapters = <<[start |-> 0, end |-> 3000, name |-> "Body"]>>

\* C29: the read of a WAV file succeeds whether its labl chunks come before
\* or after its cue chunk and whether or not the cue chunk declares their
\* cue ids, with a chapter for every labl chunk, named by it.
C29_LabelsAttachInAnyOrder ==
    (wavOut.done /\ ~WaveOpenRaises(wavIn) /\ ~RiffRaises(wavIn)) =>
        /\ wavOut.ok
        /\ \A k \in 1..Len(wavIn.chunks) :
               wavIn.chunks[k].id = "labl" =>
                   \E i \in 1..Len(wavOut.chapters) :
                       wavOut.chapters[i].name = wavIn.chunks[k].label

\* C31: once an encode in which every worker reached the end of encode_chunk
\* and no encoder process failed has returned, the last aggregate passed to
\* the wrapped listener is 100.
C31_LastAggregateIs100 ==
    \A o \in Ops :
        (/\ EncodeReturned(o)
         /\ FailedWorkers(o) = {}
         /\ \A k \in 1..Len(workers[o]) : workers[o][k].pc = "done") =>
            progress[o] = 100

\* C32: while a write_mp3_data_with_metadata that the window started runs,
\* mp3_data holds the buffer that the encode of the imported WAV has
\* stored, and that encode has returned.
C32_WriteReadsCompletedEncode ==
    \A o \in DOMAIN opPc :
        (opKind[o] = "write_data" /\ opPc[o] \in {"body", "write"}) =>
            /\ mp3_data.set
            /\ opKind[2] = "encode" /\ opPc[2] \in {"complete", "done"}

\* the text is HH:MM:SS.mmm with minutes and seconds below 60
WellFormed(text) ==
    /\ Len(text) = 12
    /\ \A j \in {1, 2, 4, 5, 7, 8, 10, 11, 12} : text[j] \in DigitChars
    /\ text[3] = ":" /\ text[6] = ":" /\ text[9] = "."
    /\ DigitValue(text[4]) < 6 /\ DigitValue(text[7]) < 6

\* the milliseconds a well-formed text stands for
MillisOf(text) ==
    LET d(j) == DigitValue(text[j])
    IN  (d(1) * 10 + d(2)) * 3600 * 1000 + (d(4) * 10 + d(5)) * 60 * 1000
        + (d(7) * 10 + d(8)) * 1000 + d(10) * 100 + d(11) * 10 + d(12)

\* C33: after an edit of the start or the end of a chapter with a
\* well-formed text HH:MM:SS.mmm the field holds the milliseconds the text
\* stands for, 00:00:00.000 included; and the text the editor shows for a
\* time below 100 hours parses to that time.
C33_EditSetsMilliseconds ==
    /\ (gui.edited.column = "start" /\ WellFormed(gui.edited.value)) =>
           gui.chapters[1].start = MillisOf(gui.edited.value)
    /\ (gui.edited.column = "end" /\ WellFormed(gui.edited.value)) =>
           gui.chapters[1].end = MillisOf(gui.edited.value)
    /\ \A i \in 1..Len(gui.chapters) :
           ParseTimestamp(FormatTimestamp(gui.chapters[i].start, TRUE))
               = PyInt(gui.chapters[i].start)

====
